---- MODULE Spec2Model ----
(***************************************************************************)
(* A model of the query router of src/src/nlp_router.py.                   *)
(*                                                                         *)
(* One call route_query(query, df) is a small state machine: the guard on  *)
(* the empty query, then the extraction stages in the order of the code    *)
(* (category, merchant, amount range, free-text search), then the keyword  *)
(* scorer.  Strings are TLA+ strings; the text functions of the code       *)
(* (lower, split, strip, substring, the regular expressions, difflib's     *)
(* ratio) are operators computed character by character.                   *)
(***************************************************************************)
EXTENDS Naturals, Integers, Sequences, FiniteSets, TLC

VARIABLES pieces, query, df, nanAsText, pc, route, params, trace, other, detector,
          hybrid, categorisation

vars == <<pieces, query, df, nanAsText, pc, route, params, trace, other, detector,
          hybrid, categorisation>>

\* what lies outside the call that is running
aside == <<other, detector, hybrid, categorisation>>

(***************************************************************************)
(* Bounds of the model.                                                    *)
(***************************************************************************)
MaxPieces == 2
\* calls made on one AnomalyDetector
MaxCalls == 3

MaxRows == 3

(***************************************************************************)
(* Text primitives (Python str methods).                                   *)
(***************************************************************************)
Ch(s, i) == SubSeq(s, i, i)

UpperChars == "ABCDEFGHIJKLMNOPQRSTUVWXYZ"
LowerChars == "abcdefghijklmnopqrstuvwxyz"
DigitChars == "0123456789"
WhitespaceChars == {" ", "\t"}

CharSet(s) == {Ch(s, i) : i \in 1..Len(s)}

LowerMap == [c \in CharSet(UpperChars) |->
               Ch(LowerChars, CHOOSE i \in 1..26 : Ch(UpperChars, i) = c)]

LowerChar(c) == IF c \in DOMAIN LowerMap THEN LowerMap[c] ELSE c

RECURSIVE LowerFrom(_, _)
LowerFrom(s, i) == IF i > Len(s) THEN "" ELSE LowerChar(Ch(s, i)) \o LowerFrom(s, i + 1)

UpperMap == [c \in CharSet(LowerChars) |->
               Ch(UpperChars, CHOOSE i \in 1..26 : Ch(LowerChars, i) = c)]

UpperChar(c) == IF c \in DOMAIN UpperMap THEN UpperMap[c] ELSE c

RECURSIVE UpperFrom(_, _)
UpperFrom(s, i) == IF i > Len(s) THEN "" ELSE UpperChar(Ch(s, i)) \o UpperFrom(s, i + 1)

\* str.upper(), for text in ASCII
Upper(s) == UpperFrom(s, 1)

\* str.lower()
Lower(s) == LowerFrom(s, 1)

\* needle in hay
IsSub(needle, hay) ==
    \E i \in 1..(Len(hay) + 1) :
        /\ i + Len(needle) - 1 <= Len(hay)
        /\ SubSeq(hay, i, i + Len(needle) - 1) = needle

\* hay.startswith(needle)
StartsWith(hay, needle) ==
    /\ Len(needle) <= Len(hay)
    /\ SubSeq(hay, 1, Len(needle)) = needle

RECURSIVE SplitFrom(_, _, _)
SplitFrom(s, i, cur) ==
    IF i > Len(s)
    THEN (IF cur = "" THEN <<>> ELSE <<cur>>)
    ELSE IF Ch(s, i) \in WhitespaceChars
         THEN (IF cur = "" THEN SplitFrom(s, i + 1, "")
                           ELSE <<cur>> \o SplitFrom(s, i + 1, ""))
         ELSE SplitFrom(s, i + 1, cur \o Ch(s, i))

\* str.split() with no argument: the maximal runs of non-whitespace
Split(s) == SplitFrom(s, 1, "")

RECURSIVE LStrip(_, _)
LStrip(s, chars) ==
    IF s # "" /\ Ch(s, 1) \in chars THEN LStrip(SubSeq(s, 2, Len(s)), chars) ELSE s

RECURSIVE RStrip(_, _)
RStrip(s, chars) ==
    IF s # "" /\ Ch(s, Len(s)) \in chars THEN RStrip(SubSeq(s, 1, Len(s) - 1), chars) ELSE s

\* str.strip(chars): both ends
Strip(s, chars) == RStrip(LStrip(s, chars), chars)

PunctChars == {".", ",", "!", "?"}

Range(f) == {f[i] : i \in DOMAIN f}

RECURSIVE UniqueFrom(_, _, _)
UniqueFrom(s, i, seen) ==
    IF i > Len(s) THEN <<>>
    ELSE IF s[i] \in seen THEN UniqueFrom(s, i + 1, seen)
         ELSE <<s[i]>> \o UniqueFrom(s, i + 1, seen \cup {s[i]})

\* the distinct elements in order of first appearance (pandas unique())
Unique(s) == UniqueFrom(s, 1, {})

(***************************************************************************)
(* difflib.get_close_matches(word, possibilities, n=1, cutoff=0.7), as the  *)
(* extractors call it: SequenceMatcher(a = possibility, b = word).ratio()  *)
(* is 2*M/T, M the characters in the matching blocks found by repeatedly   *)
(* taking the longest common block (earliest in a, then earliest in b) and *)
(* recursing to its left and right, T the sum of the two lengths.          *)
(***************************************************************************)
RECURSIVE CommonRun(_, _, _, _, _, _)
CommonRun(a, b, i, j, ahi, bhi) ==
    IF i > ahi \/ j > bhi \/ Ch(a, i) # Ch(b, j) THEN 0
    ELSE 1 + CommonRun(a, b, i + 1, j + 1, ahi, bhi)

Max(S) == CHOOSE x \in S : \A y \in S : y <= x
Min(S) == CHOOSE x \in S : \A y \in S : x <= y
MinOrZero(S) == IF S = {} THEN 0 ELSE Min(S)

\* the length of the common run starting at each pair of positions
RunTable(a, b, alo, ahi, blo, bhi) ==
    [p \in (alo..ahi) \X (blo..bhi) |-> CommonRun(a, b, p[1], p[2], ahi, bhi)]

\* among the blocks S of size k starting at i in a, the one earliest in b
EarliestInB(S, i, k) == <<i, Min({p[2] : p \in {r \in S : r[1] = i}}), k>>

\* among the blocks S of size k, the one earliest in a, then earliest in b
EarliestBlock(S, k) == EarliestInB(S, Min({p[1] : p \in S}), k)

BlockOfSize(run, k, alo, blo) ==
    IF k = 0 THEN <<alo, blo, 0>>
    ELSE EarliestBlock({p \in DOMAIN run : run[p] = k}, k)

\* SequenceMatcher.find_longest_match on a[alo..ahi], b[blo..bhi]: <<i, j, size>>
LongestIn(run, alo, blo) == BlockOfSize(run, Max(Range(run) \cup {0}), alo, blo)

LongestMatch(a, b, alo, ahi, blo, bhi) ==
    LongestIn(RunTable(a, b, alo, ahi, blo, bhi), alo, blo)

RECURSIVE MatchCount(_, _, _, _, _, _)
RECURSIVE AroundBlock(_, _, _, _, _, _, _)
\* the block m and the matches to its left and to its right
AroundBlock(a, b, alo, ahi, blo, bhi, m) ==
    IF m[3] = 0 THEN 0
    ELSE m[3] + MatchCount(a, b, alo, m[1] - 1, blo, m[2] - 1)
              + MatchCount(a, b, m[1] + m[3], ahi, m[2] + m[3], bhi)

\* the sum of the sizes of get_matching_blocks()
MatchCount(a, b, alo, ahi, blo, bhi) ==
    IF alo > ahi \/ blo > bhi THEN 0
    ELSE AroundBlock(a, b, alo, ahi, blo, bhi, LongestMatch(a, b, alo, ahi, blo, bhi))

\* ratio() as the fraction <<2*M, T>>; 1.0 when both strings are empty
RatioOf(a, b) ==
    IF Len(a) + Len(b) = 0 THEN <<1, 1>>
    ELSE <<2 * MatchCount(a, b, 1, Len(a), 1, Len(b)), Len(a) + Len(b)>>

CutoffNum == 7
CutoffDen == 10

\* ratio >= cutoff
AtLeastCutoff(r) == CutoffDen * r[1] >= CutoffNum * r[2]

\* SequenceMatcher(a = x, b = word).ratio() >= 0.7
IsClose(x, word) == AtLeastCutoff(RatioOf(x, word))

\* the order of Python's str comparison on the characters the model uses
CodeOrder == " !&',-.0123456789?ABCDEFGHIJKLMNOPQRSTUVWXYZ[]abcdefghijklmnopqrstuvwxyz"

\* a character outside CodeOrder (the pound sign) sorts after all of them
PlaceIn(S) == IF S = {} THEN Len(CodeOrder) + 1 ELSE Min(S)

Ord(c) == PlaceIn({i \in 1..Len(CodeOrder) : Ch(CodeOrder, i) = c})

RECURSIVE StrLess(_, _)
StrLess(x, y) ==
    IF y = "" THEN FALSE
    ELSE IF x = "" THEN TRUE
    ELSE IF Ch(x, 1) = Ch(y, 1) THEN StrLess(SubSeq(x, 2, Len(x)), SubSeq(y, 2, Len(y)))
    ELSE Ord(Ch(x, 1)) < Ord(Ch(y, 1))

\* (rx, x) < (ry, y) for the (score, string) tuples heapq.nlargest compares
ScoredLess(rx, x, ry, y) ==
    \/ rx[1] * ry[2] < ry[1] * rx[2]
    \/ rx[1] * ry[2] = ry[1] * rx[2] /\ StrLess(x, y)

\* the largest (score, string) among the close ones
BestOf(r, close) == {x \in close : \A y \in close : ~ScoredLess(r[x], x, r[y], y)}

BestClose(r) == BestOf(r, {x \in DOMAIN r : AtLeastCutoff(r[x])})

\* get_close_matches(word, possibilities, n=1, cutoff=0.7): the set holding the
\* best match, or the empty set
GetCloseMatches(word, possibilities) ==
    BestClose([x \in Range(possibilities) |-> RatioOf(x, word)])

(***************************************************************************)
(* The transaction store (a pandas DataFrame): its columns in the order    *)
(* the store declares them, and its rows, each a tuple of cells aligned    *)
(* with the columns.  A cell is a string, a missing value (NaN), a number  *)
(* or a list (an unhashable value); s is the text str() gives for it.      *)
(***************************************************************************)
StrCell(t)  == [k |-> "str",  s |-> t]
NumCell(t)  == [k |-> "num",  s |-> t]
ListCell(t) == [k |-> "list", s |-> t]
NanCell     == [k |-> "nan",  s |-> "nan"]

NoStore == [present |-> FALSE, columns |-> <<>>, rows |-> <<>>]
Store(cols, rows) == [present |-> TRUE, columns |-> cols, rows |-> rows]

\* df.empty
IsEmpty(d) == Len(d.rows) = 0 \/ Len(d.columns) = 0

\* col in df.columns
HasColumn(d, col) == \E i \in 1..Len(d.columns) : d.columns[i] = col

\* df[col]: the cells of the column, in row order
Column(d, col) ==
    LET c == CHOOSE i \in 1..Len(d.columns) : d.columns[i] = col
    IN  [r \in 1..Len(d.rows) |-> d.rows[r][c]]

\* the result a function returns when it returns a value, and None
Some(v) == [some |-> TRUE, v |-> v]
None == [some |-> FALSE, v |-> ""]

\* Python truth of an Optional[str]: neither None nor the empty string
Truthy(r) == r.some /\ r.v # ""

\* index of the first element of s passing Test, 0 when there is none
FirstIdx(s, Test(_)) == MinOrZero({i \in 1..Len(s) : Test(s[i])})

ElemOrNone(s, i) == IF i = 0 THEN None ELSE Some(s[i])

\* the first element of s passing Test, or None
FirstSome(s, Test(_)) == ElemOrNone(s, FirstIdx(s, Test))

\* r unless it is None, then alt
OrElse(r, alt) == IF r.some THEN r ELSE alt

MapSeq(s, F(_)) == [i \in 1..Len(s) |-> F(s[i])]

\* for value in values: if value.lower() == matches[0]: return value
OriginalOf(values, matches) ==
    IF matches = {} THEN None
    ELSE FirstSome(values, LAMBDA v : Lower(v) \in matches)

\* the first non-empty set of a sequence of sets, or the empty set
FirstNonEmpty(sets) ==
    IF \E i \in 1..Len(sets) : sets[i] # {}
    THEN sets[Min({i \in 1..Len(sets) : sets[i] # {}})]
    ELSE {}

(***************************************************************************)
(* extract_category_from_dataframe                                         *)
(***************************************************************************)
\* df["category"].unique() hashes the values: a list in the column raises TypeError
UniqueRaises(cells) == \E i \in 1..Len(cells) : cells[i].k = "list"

\* [str(cat) for cat in df["category"].unique() if isinstance(cat, str)]
ActualCategories(d) ==
    MapSeq(SelectSeq(Unique(Column(d, "category")), LAMBDA c : c.k = "str"),
           LAMBDA c : c.s)

\* the condition of the first loop: cat.lower() in q_lower or cat.lower() == q_lower
ExactMatch(cat, q_lower) == IsSub(Lower(cat), q_lower) \/ Lower(cat) = q_lower

\* the condition of the second loop: cat.lower() in q_lower
PartialMatch(cat, q_lower) == IsSub(Lower(cat), q_lower)

\* the third loop testing the whole name only
ReverseMatchNameOnly(cat, q_lower) == IsSub(Lower(cat), q_lower)

\* the condition of the third loop: the name, or any word of the name, in the query
ReverseMatch(cat, q_lower) ==
    \/ IsSub(Lower(cat), q_lower)
    \/ \E w \in Range(Split(Lower(cat))) : IsSub(w, q_lower)

\* the close matches of each word, in the order of the words
CloseMatchesOf(words, lowered) ==
    [i \in 1..Len(words) |-> GetCloseMatches(words[i], lowered)]

\* the fourth loop: the first query word longer than 2 with a close match decides
FuzzyCategory(cats, q_lower) ==
    OriginalOf(cats,
               FirstNonEmpty(CloseMatchesOf(SelectSeq(Split(q_lower), LAMBDA w : Len(w) > 2),
                                            MapSeq(cats, Lower))))

CategoryRaises(d) ==
    /\ HasColumn(d, "category")
    /\ ~IsEmpty(d)
    /\ UniqueRaises(Column(d, "category"))

\* the four loops in order
MatchCategory(cats, q_lower) ==
    OrElse(FirstSome(cats, LAMBDA cat : ExactMatch(cat, q_lower)),
    OrElse(FirstSome(cats, LAMBDA cat : PartialMatch(cat, q_lower)),
    OrElse(FirstSome(cats, LAMBDA cat : ReverseMatch(cat, q_lower)),
           FuzzyCategory(cats, q_lower))))

\* the extractor returning the lower-cased name it compared with
ExtractCategoryLowered(q, d) ==
    IF ~HasColumn(d, "category") \/ IsEmpty(d) THEN None
    ELSE IF MatchCategory(ActualCategories(d), Lower(q)).some
    THEN Some(Lower(MatchCategory(ActualCategories(d), Lower(q)).v))
    ELSE None

ExtractCategoryFromDataframe(q, d) ==
    IF ~HasColumn(d, "category") \/ IsEmpty(d) THEN None
    ELSE MatchCategory(ActualCategories(d), Lower(q))

(***************************************************************************)
(* extract_merchant_from_query                                             *)
(***************************************************************************)
IgnoreWords == {"transaction", "transactions", "spending", "spent", "show", "tell"}

\* [w.strip('.,!?') for w in q_lower.split() if w.lower() not in ignore_words and len(w) >= 2]
QueryTerms(q) ==
    MapSeq(SelectSeq(Split(Lower(q)), LAMBDA w : w \notin IgnoreWords /\ Len(w) >= 2),
           LAMBDA w : Strip(w, PunctChars))

\* df[col].dropna().astype(str).unique()
ColValues(d, col) ==
    Unique(MapSeq(SelectSeq(Column(d, col), LAMBDA c : c.k # "nan"), LAMBDA c : c.s))

\* the six alternatives of the direct match, value_lower being str(value).lower().strip()
DirectMatch(term_lower, value_lower) ==
    \/ term_lower = value_lower
    \/ IsSub(term_lower, value_lower)
    \/ IsSub(value_lower, term_lower)
    \/ StartsWith(value_lower, term_lower)
    \/ StartsWith(term_lower, value_lower)
    \/ \E word \in Range(Split(value_lower)) :
           IsSub(term_lower, word) \/ IsSub(word, term_lower)

DirectHit(term_lower, value) == DirectMatch(term_lower, Strip(Lower(value), WhitespaceChars))

\* MatchInColumn returning the query term in place of the store's value
MatchInColumnTerm(term_lower, col_values) ==
    IF \/ \E i \in 1..Len(col_values) : DirectHit(term_lower, col_values[i])
       \/ GetCloseMatches(term_lower, MapSeq(col_values, Lower)) # {}
    THEN Some(term_lower)
    ELSE None

\* one term against one column: the first direct hit, else the best close match
MatchInColumn(term_lower, col_values) ==
    OrElse(FirstSome(col_values, LAMBDA v : DirectHit(term_lower, v)),
           OriginalOf(col_values, GetCloseMatches(term_lower, MapSeq(col_values, Lower))))

\* df[col] of a label that several columns carry is a DataFrame, and
\* DataFrame has no unique(): processing the column raises AttributeError
ColumnRaises(d, col) == Cardinality({i \in 1..Len(d.columns) : d.columns[i] = col}) > 1

\* the columns in a fixed order: the five named ones first, then the others
AllColumnsNamedFirst(d) ==
    SelectSeq(<<"description", "merchant", "name", "category", "type">>,
              LAMBDA c : HasColumn(d, c))
        \o SelectSeq(d.columns,
                     LAMBDA c : c \notin {"description", "merchant", "name", "category", "type"})

\* the columns the scan visits, in order: df.columns.tolist()
AllColumns(d) == d.columns

\* the two loops exchanged: for col in all_columns: for term in query_terms
RECURSIVE ScanColumnsFirst(_, _, _, _)
ScanColumnsFirst(terms, d, ti, ci) ==
    IF ci > Len(AllColumns(d)) THEN None
    ELSE IF ti > Len(terms) THEN ScanColumnsFirst(terms, d, 1, ci + 1)
    ELSE OrElse(MatchInColumn(terms[ti], ColValues(d, AllColumns(d)[ci])),
                ScanColumnsFirst(terms, d, ti + 1, ci))

\* the scan without the try/except of lines 115-137: a column that raises ends it
RECURSIVE ScanTermsAborted(_, _, _, _)
ScanTermsAborted(terms, d, ti, ci) ==
    IF ti > Len(terms) THEN None
    ELSE IF ci > Len(AllColumns(d)) THEN ScanTermsAborted(terms, d, ti + 1, 1)
    ELSE IF ColumnRaises(d, AllColumns(d)[ci]) THEN None
    ELSE OrElse(MatchInColumn(terms[ti], ColValues(d, AllColumns(d)[ci])),
                ScanTermsAborted(terms, d, ti, ci + 1))

\* for term in query_terms: for col in all_columns: the first hit is returned
RECURSIVE ScanTerms(_, _, _, _)
ScanTerms(terms, d, ti, ci) ==
    IF ti > Len(terms) THEN None
    ELSE IF ci > Len(AllColumns(d)) THEN ScanTerms(terms, d, ti + 1, 1)
    ELSE IF ColumnRaises(d, AllColumns(d)[ci]) THEN ScanTerms(terms, d, ti, ci + 1)
    ELSE OrElse(MatchInColumn(terms[ti], ColValues(d, AllColumns(d)[ci])),
                ScanTerms(terms, d, ti, ci + 1))

ScanAll(terms, d) == IF terms = <<>> THEN None ELSE ScanTerms(terms, d, 1, 1)

ExtractMerchantFromQuery(q, d) ==
    IF IsEmpty(d) THEN None ELSE ScanAll(QueryTerms(q), d)

(***************************************************************************)
(* extract_amount_range: six regular expressions tried in order with       *)
(* re.search.  An amount is a number of hundredths, or +infinity.          *)
(***************************************************************************)
Fin(n) == [inf |-> FALSE, cents |-> n]
PosInf == [inf |-> TRUE, cents |-> 0]

CharAt(s, i) == IF i >= 1 /\ i <= Len(s) THEN Ch(s, i) ELSE ""

IsDigit(c) == c # "" /\ IsSub(c, DigitChars)

DigitVal(c) == (CHOOSE i \in 1..10 : Ch(DigitChars, i) = c) - 1

IsWs(c) == c \in WhitespaceChars

\* the length of the run of digits (\d+) at position i
RECURSIVE DigitRun(_, _)
DigitRun(s, i) == IF IsDigit(CharAt(s, i)) THEN 1 + DigitRun(s, i + 1) ELSE 0

\* the length of the run of whitespace (\s+) at position i
RECURSIVE WsRun(_, _)
WsRun(s, i) == IF IsWs(CharAt(s, i)) THEN 1 + WsRun(s, i + 1) ELSE 0

RECURSIVE IntVal(_)
IntVal(digits) ==
    IF digits = "" THEN 0
    ELSE 10 * IntVal(SubSeq(digits, 1, Len(digits) - 1)) + DigitVal(Ch(digits, Len(digits)))

CurrencySign == "£"

NoMatch == [ok |-> FALSE, lo |-> 0, hi |-> 0, next |-> 0]

\* n digits at j, then the optional  \.\d{2}  when frac: float() of the text, in hundredths
NumberOf(s, j, n, frac) ==
    IF n = 0 THEN NoMatch
    ELSE IF frac
         THEN [ok |-> TRUE,
               lo |-> 100 * IntVal(SubSeq(s, j, j + n - 1))
                      + IntVal(SubSeq(s, j + n + 1, j + n + 2)),
               hi |-> 0, next |-> j + n + 3]
         ELSE [ok |-> TRUE, lo |-> 100 * IntVal(SubSeq(s, j, j + n - 1)),
               hi |-> 0, next |-> j + n]

DigitsAt(s, j, n) ==
    NumberOf(s, j, n, /\ CharAt(s, j + n) = "."
                      /\ IsDigit(CharAt(s, j + n + 1))
                      /\ IsDigit(CharAt(s, j + n + 2)))

NumberFrom(s, j) == DigitsAt(s, j, DigitRun(s, j))

\* the number pattern  £?(\d+(?:\.\d{2})?)  at position i: whether it matches,
\* float(group 1) in hundredths (lo) and the position after the match (next)
NumberAt(s, i) == NumberFrom(s, IF CharAt(s, i) = CurrencySign THEN i + 1 ELSE i)

\* the literal word at position i
WordAt(s, i, word) == i + Len(word) - 1 <= Len(s) /\ SubSeq(s, i, i + Len(word) - 1) = word

\* \s+ at position i, w whitespace characters long, then the number
AfterSpace(s, i, w) == IF w >= 1 THEN NumberAt(s, i + w) ELSE NoMatch

\* the pattern  <word>\s+<number>  tried at position i
OneNumberAt(s, i, word) ==
    IF WordAt(s, i, word) THEN AfterSpace(s, i + Len(word), WsRun(s, i + Len(word)))
    ELSE NoMatch

\* the rest of the between pattern after its first number a:  \s+and\s+<number>
AndNumber(s, a, b) ==
    IF a.ok /\ b.ok THEN [ok |-> TRUE, lo |-> a.lo, hi |-> b.lo, next |-> b.next]
    ELSE NoMatch

SecondNumber(s, a, w) ==
    IF a.ok /\ w >= 1 THEN AndNumber(s, a, OneNumberAt(s, a.next + w, "and")) ELSE NoMatch

FirstNumber(s, a) == SecondNumber(s, a, WsRun(s, a.next))

\* the pattern  between\s+<number>\s+and\s+<number>  tried at position i
BetweenAt(s, i) == FirstNumber(s, OneNumberAt(s, i, "between"))

\* the patterns in the order of the list
PatternWords == <<"over", "more than", "greater than", "less than", "under", "between">>

NumPatterns == 6

\* pattern k of the list tried at position i
PatternAt(s, k, i) ==
    IF k = NumPatterns THEN BetweenAt(s, i) ELSE OneNumberAt(s, i, PatternWords[k])

\* the converter of pattern k on a match m, with (result, float('inf')) for a number
Converted(k, m) ==
    IF k <= 3 THEN <<Fin(m.lo), PosInf>>
    ELSE IF k <= 5 THEN <<Fin(0), Fin(m.lo)>>
    ELSE <<Fin(m.lo), Fin(m.hi)>>

\* re.search(pattern, q_lower): the match at the leftmost position p, 0 for none
MatchAtPos(s, k, p) == IF p = 0 THEN <<>> ELSE Converted(k, PatternAt(s, k, p))

\* the outcome of pattern k on q_lower: <<>> when it does not match
PatternResult(s, k) ==
    MatchAtPos(s, k, MinOrZero({i \in 1..Len(s) : PatternAt(s, k, i).ok}))

\* r unless it is no result, then alt
OrNext(r, alt) == IF r # <<>> THEN r ELSE alt

\* the loop over the patterns with the last matching pattern deciding
RECURSIVE LastPattern(_, _)
LastPattern(s, k) ==
    IF k > NumPatterns THEN <<>>
    ELSE OrNext(LastPattern(s, k + 1), PatternResult(s, k))

\* for pattern, converter in patterns: the first pattern that matches decides
RECURSIVE FirstPattern(_, _)
FirstPattern(s, k) ==
    IF k > NumPatterns THEN <<>>
    ELSE OrNext(PatternResult(s, k), FirstPattern(s, k + 1))

\* <<>> is None, otherwise <<min_amount, max_amount>>
ExtractAmountRange(q) == FirstPattern(Lower(q), 1)

(***************************************************************************)
(* extract_search_terms and search_transactions                            *)
(***************************************************************************)
StopWords ==
    {"how", "much", "can", "i", "me", "my", "the", "a", "an", "and", "or", "but",
     "is", "are", "was", "were", "in", "on", "at", "to", "of", "for", "from", "by",
     "with", "about", "what", "where", "when", "why", "which", "do", "did", "does",
     "show", "tell", "give", "find", "list", "search", "transaction", "transactions",
     "spending", "spent", "cost", "price", "amount", "have", "has", "had", "money",
     "payment", "payments", "bills", "bill", "account", "accounts", "made", "during",
     "month", "day"}

\* [w.strip('.,!?') for w in words if w.lower() not in stop_words and len(w) >= 2]
ExtractSearchTerms(q) ==
    MapSeq(SelectSeq(Split(Lower(q)), LAMBDA w : w \notin StopWords /\ Len(w) >= 2),
           LAMBDA w : Strip(w, PunctChars))

SearchColumns == <<"description", "merchant", "name", "category", "type">>

\* the test of one cell with the case of the letters kept (case=True)
CellContainsCased(cell, term, asText) ==
    IF cell.k = "nan" /\ ~asText THEN FALSE
    ELSE IsSub(term, cell.s)

\* df[col].astype(str).str.contains(re.escape(term), case=False, na=False) on one
\* cell.  astype(str) turns a missing value into the text 'nan' (object columns) or
\* keeps it missing (string dtype), as the installed pandas does: asText says which.
CellContains(cell, term, asText) ==
    IF cell.k = "nan" /\ ~asText THEN FALSE
    ELSE IsSub(Lower(term), Lower(cell.s))

\* the mask built over every column of the store, whatever its name
RowSelectedAnyColumn(d, r, terms, asText) ==
    \E t \in 1..Len(terms) : \E c \in 1..Len(d.columns) :
        CellContains(d.rows[r][c], terms[t], asText)

\* mask[r]: some term occurs in some search column the store has
RowSelected(d, r, terms, asText) ==
    \E t \in 1..Len(terms) : \E c \in 1..Len(SearchColumns) :
        /\ HasColumn(d, SearchColumns[c])
        /\ CellContains(Column(d, SearchColumns[c])[r], terms[t], asText)

\* df[mask], as the row numbers it keeps in store order; <<>> is None
SearchWith(terms, d, asText) ==
    IF terms = <<>> THEN <<>>
    ELSE SelectSeq([r \in 1..Len(d.rows) |-> r], LAMBDA r : RowSelected(d, r, terms, asText))

SearchTransactions(q, d, asText) ==
    IF IsEmpty(d) THEN <<>> ELSE SearchWith(ExtractSearchTerms(q), d, asText)

\* the word count without the removal of the six ignored words
QueryWordsUnfiltered(q) == Split(q)

\* the words route_query counts before it tries the free-text search
QueryWords(q) == SelectSeq(Split(q), LAMBDA w : Lower(w) \notin IgnoreWords)

\* the test with <= in place of <
UsefulFilterAtMostHalf(result, d) == Len(result) > 0 /\ 2 * Len(result) <= Len(d.rows)

\* len(search_result) > 0 and len(search_result) < len(df) * 0.5
UsefulFilter(result, d) == Len(result) > 0 /\ 2 * Len(result) < Len(d.rows)

(***************************************************************************)
(* ROUTING_PATTERNS and the keyword scorer                                 *)
(***************************************************************************)
RouteTypes == <<"CATEGORY", "ANOMALIES", "HEALTH", "TREND", "SUMMARY", "SEARCH">>

Keywords ==
    [CATEGORY  |-> <<"category", "breakdown", "spending by", "expenses by", "spent on",
                     "how much on", "spend on">>,
     ANOMALIES |-> <<"anomal", "unusual", "odd", "suspicious", "strange", "weird",
                     "outlier", "abnormal">>,
     HEALTH    |-> <<"health", "score", "financial health", "health score",
                     "financial well", "well-being">>,
     TREND     |-> <<"trend", "over time", "change", "increase", "decrease", "growth",
                     "pattern", "history">>,
     SUMMARY   |-> <<"total", "overview", "summary", "all spending", "all transactions",
                     "everything">>,
     SEARCH    |-> <<"find", "look", "show", "list", "what", "where", "tell me about">>]

Weight ==
    [CATEGORY |-> 10, ANOMALIES |-> 10, HEALTH |-> 10, TREND |-> 8, SUMMARY |-> 5,
     SEARCH |-> 3]

\* the keyword test as an equality with the whole query
KeywordIs(kw, q_lower) == kw = q_lower

\* kw in q_lower
KeywordIn(kw, q_lower) == IsSub(kw, q_lower)

\* sum(1 for kw in keywords if kw in q_lower)
MatchCountOf(route_type, q_lower) ==
    Cardinality({i \in 1..Len(Keywords[route_type]) :
                    KeywordIn(Keywords[route_type][i], q_lower)})

\* match_count * weight, the score of one intent on the lower-cased query
Score(route_type, q_lower) == MatchCountOf(route_type, q_lower) * Weight[route_type]

AmountHints == <<"how much", "total", "amount", "cost", "price", "spent">>
CompareHints == <<"compare", "versus", "vs", "better", "worse">>

AnyIn(words, q_lower) == \E i \in 1..Len(words) : IsSub(words[i], q_lower)

HeuristicScore == 5
DefaultScore == 1

\* the score of every intent of the table, in table order
AllScores(q_lower) ==
    [i \in 1..Len(RouteTypes) |-> <<RouteTypes[i], Score(RouteTypes[i], q_lower)>>]

\* the heuristics with the comparison words tested before the amount words
HeuristicCompareFirst(q_lower) ==
    IF AnyIn(CompareHints, q_lower) THEN << <<"TREND", HeuristicScore>> >>
    ELSE IF AnyIn(AmountHints, q_lower) THEN << <<"SUMMARY", HeuristicScore>> >>
    ELSE << <<"SUMMARY", DefaultScore>> >>

\* the heuristics for a query on which no intent scores
Heuristic(q_lower) ==
    IF AnyIn(AmountHints, q_lower) THEN << <<"SUMMARY", HeuristicScore>> >>
    ELSE IF AnyIn(CompareHints, q_lower) THEN << <<"TREND", HeuristicScore>> >>
    ELSE << <<"SUMMARY", DefaultScore>> >>

ScoredOrHeuristic(scored, q_lower) == IF scored # <<>> THEN scored ELSE Heuristic(q_lower)

\* route_scores: the (route, score) entries in insertion order
RouteScoresOn(q_lower) ==
    ScoredOrHeuristic(SelectSeq(AllScores(q_lower), LAMBDA e : e[2] > 0), q_lower)

\* q_lower = query.lower(), line 240
RouteScores(q) == RouteScoresOn(Lower(q))

\* the last entry with the highest score
BestRouteLast(scores) ==
    scores[CHOOSE k \in 1..Len(scores) :
               /\ \A i \in 1..Len(scores) : scores[i][2] <= scores[k][2]
               /\ \A i \in (k + 1)..Len(scores) : scores[i][2] < scores[k][2]]

\* max(route_scores, key=route_scores.get): the first entry with the highest score
BestRoute(scores) ==
    scores[FirstIdx(scores, LAMBDA e : \A i \in 1..Len(scores) : scores[i][2] <= e[2])]

(***************************************************************************)
(* The inputs of a call.  A query is up to MaxPieces fragments joined by a *)
(* space; a store is absent, or a run of up to MaxRows consecutive rows of *)
(* one of the sample tables (none: the empty store).                       *)
(***************************************************************************)
RECURSIVE JoinFrom(_, _)
JoinFrom(ps, i) ==
    IF i > Len(ps) THEN ""
    ELSE IF i = Len(ps) THEN ps[i]
    ELSE ps[i] \o " " \o JoinFrom(ps, i + 1)

Join(ps) == JoinFrom(ps, 1)

\* the sequences of up to MaxPieces fragments of a pool
PieceSeqs(pool) == UNION {[1..n -> pool] : n \in 0..MaxPieces}

Pieces ==
    {"\t", "food & dining", "TESCO", "over 100", "weird", "the", "spent", "nan"}

\* fragments for the amount-range parser: one phrase of each pattern, a one-decimal
\* number, and a word that is part of no pattern
AmountPieces ==
    {"over 100", "more than 50", "greater than 7", "less than 5", "under 20",
     "between 10 and 50", "over 12.5", "weird"}

Windows(table) ==
    {SubSeq(table, i, j) : <<i, j>> \in
        {w \in (1..Len(table)) \X (0..Len(table)) : w[2] - w[1] + 1 <= MaxRows /\ w[2] >= w[1] - 1
                                                     /\ (w[2] = w[1] - 1 => w[1] = 1)}}

LedgerColumns == <<"description", "category">>

Ledger ==
    << <<StrCell("TESCO EXPRESS"), StrCell("Food")>>,
       <<StrCell("TESCO"),         StrCell("Food & Dining")>>,
       <<StrCell("SHELL"),         StrCell("Fuel")>>,
       <<StrCell("UBER"),          ListCell("['Travel', 'Taxi']")>> >>

NotesColumns == <<"description">>

Notes ==
    << <<StrCell("")>>, <<StrCell("TESCO")>>, <<StrCell("SHELL")>>, <<NanCell>> >>

Stores ==
    {NoStore}
    \cup {Store(LedgerColumns, w) : w \in Windows(Ledger)}
    \cup {Store(NotesColumns, w) : w \in Windows(Notes)}

(***************************************************************************)
(* route_query, stage by stage.  pc is the position in the function;       *)
(* trace lists the stages run so far; route and params are the decision.   *)
(***************************************************************************)
EmptyParams == [k \in {} |-> ""]

With(p, key, value) == (key :> value) @@ p

Has(p, key) == key \in DOMAIN p

\* what astype(str) may do with the missing values of the store: the choice
\* exists only for a store that holds one
NanChoices(d) ==
    IF \E r \in 1..Len(d.rows) : \E c \in 1..Len(d.rows[r]) : d.rows[r][c].k = "nan"
    THEN BOOLEAN
    ELSE {FALSE}

(***************************************************************************)
(* advanced_nlp: TransformerNLPEngine and HybridNLPRouter.  A confidence   *)
(* is written in tenths; a model attribute is "unset" (never assigned),    *)
(* "None" or "loaded"; a result of a call is kept in the history of the    *)
(* router, calls.                                                          *)
(***************************************************************************)
\* lines 51-59
financial_intents ==
    <<"spending analysis", "anomaly detection", "category breakdown", "health check",
      "trend analysis", "budgeting", "account overview">>

\* the constructor loading the models when the transformers package is there
TransformerNLPEngineLoaded(transformers) ==
    [models_loaded |-> transformers,
     intent_classifier |-> IF transformers THEN "loaded" ELSE "unset",
     semantic_model |-> IF transformers THEN "loaded" ELSE "unset",
     ner_pipeline |-> IF transformers THEN "loaded" ELSE "unset"]

\* TransformerNLPEngine.__init__ (lines 36-45), transformers being
\* TRANSFORMERS_AVAILABLE: without the package the constructor returns before
\* the model attributes are assigned
TransformerNLPEngine(transformers) ==
    [models_loaded |-> FALSE,
     intent_classifier |-> IF transformers THEN "None" ELSE "unset",
     semantic_model |-> IF transformers THEN "None" ELSE "unset",
     ner_pipeline |-> IF transformers THEN "None" ELSE "unset"]

\* the confidences a loaded classifier may give, in tenths
Confidences == {2, 5}

\* the threshold 0.3 of lines 61 and 218, in tenths
ConfidenceThreshold == 3

\* classify_intent (lines 69-89): the pairs (intent, confidence) it may return;
\* ("AttributeError", 0) stands for the exception of reading an attribute that
\* was never assigned
ClassifyIntent(engine) ==
    IF ~engine.models_loaded THEN {<<"unknown", 0>>}
    ELSE IF engine.intent_classifier = "unset" THEN {<<"AttributeError", 0>>}
    ELSE IF engine.intent_classifier = "None" THEN {<<"unknown", 0>>}
    ELSE {<<"unknown", 0>>} \cup
         {<<IF c < ConfidenceThreshold THEN "unknown" ELSE financial_intents[i], c>> :
              i \in 1..Len(financial_intents), c \in Confidences}

\* extract_entities (lines 123-128): the lists of entity words it may return;
\* calling a pipeline that is None or unset raises, and the handler returns []
ExtractEntities(engine) ==
    IF engine.ner_pipeline = "loaded" THEN {<<>>, <<"TESCO">>} ELSE {<<>>}

\* lines 137-148
categories ==
    <<"groceries", "restaurants", "transportation", "utilities", "entertainment",
      "shopping", "healthcare", "insurance", "savings", "other">>

\* categorize_transaction_description (lines 137-151): without a loaded model
\* find_semantic_similarity gives every candidate 0.0 (lines 112-114) and the
\* stable sort keeps the first
CategorizeTransactionDescription(engine) ==
    IF engine.semantic_model = "loaded"
    THEN {categories[i] : i \in 1..Len(categories)}
    ELSE {categories[1]}

\* summarize_query (lines 160-169), as (intent, confidence, entities)
SummarizeQuery(engine) ==
    {<<ic[1], ic[2], e>> : ic \in ClassifyIntent(engine), e \in ExtractEntities(engine)}

\* lines 187-193, in the order of the dictionary
keyword_routes ==
    <<[route |-> "CATEGORY",
       keywords |-> <<"category", "breakdown", "spending by", "expenses by">>],
      [route |-> "ANOMALIES", keywords |-> <<"anomal", "unusual", "odd", "suspicious">>],
      [route |-> "HEALTH", keywords |-> <<"health", "score", "financial health">>],
      [route |-> "SUMMARY", keywords |-> <<"spend", "summary", "total", "overview">>],
      [route |-> "TREND",
       keywords |-> <<"trend", "over time", "change", "increase", "decrease">>]>>

\* lines 254-258 on the lower-cased query: the position of the first entry with a
\* keyword in q, 0 when there is none
FirstRouteIn(q) ==
    MinOrZero({i \in 1..Len(keyword_routes) :
                  \E k \in 1..Len(keyword_routes[i].keywords) :
                      IsSub(keyword_routes[i].keywords[k], q)})

\* _keyword_route (lines 250-258), as (route_type, parameters)
KeywordRoute(query_text) ==
    LET hit == FirstRouteIn(Lower(query_text))
    IN  <<IF hit = 0 THEN "UNKNOWN" ELSE keyword_routes[hit].route, EmptyParams>>

\* lines 222-232
IntentMap(intent) ==
    CASE intent = "spending analysis" -> "SUMMARY"
      [] intent = "anomaly detection" -> "ANOMALIES"
      [] intent = "category breakdown" -> "CATEGORY"
      [] intent = "health check" -> "HEALTH"
      [] intent = "trend analysis" -> "TREND"
      [] intent = "budgeting" -> "BUDGET"
      [] intent = "account overview" -> "SUMMARY"
      [] OTHER -> "UNKNOWN"

\* lines 218-244 for one answer ic of the classifier; fallback is the result of
\* _keyword_route
RouteOfIntent(engine, ic, fallback) ==
    IF ic[1] \in {"unknown", "AttributeError"} \/ ic[2] < ConfidenceThreshold
    THEN {fallback}
    ELSE IF IntentMap(ic[1]) = "UNKNOWN" THEN {fallback}
    ELSE {<<IntentMap(ic[1]),
            With(With(EmptyParams, "confidence", ic[2]), "entities", e)>> :
              e \in ExtractEntities(engine)}

\* _transformer_route (lines 208-248): the results it may return
TransformerRoute(engine, fallback) ==
    IF ~engine.models_loaded THEN {fallback}
    ELSE UNION {RouteOfIntent(engine, ic, fallback) : ic \in ClassifyIntent(engine)}

\* HybridNLPRouter.route_query (lines 203-206): the engine, an object, is true
HybridRoute(h, fallback) ==
    IF h.transformer_engine.some
    THEN TransformerRoute(h.transformer_engine.v, fallback)
    ELSE {fallback}

\* HybridNLPRouter.__init__ (lines 180-193): the constructor of the engine does
\* not raise, so the engine is never None
HybridNLPRouter(transformers) ==
    [TRANSFORMERS_AVAILABLE |-> transformers,
     transformer_engine |-> Some(TransformerNLPEngine(transformers)),
     calls |-> <<>>]

(***************************************************************************)
(* categorisation.  The module is a record: imported is "no" before the    *)
(* import statement of a client has run, "yes" after it has, "NameError"   *)
(* when it raised; env is what the interpreter offers: whether advanced_nlp*)
(* can be imported, whether the annotations of a def are evaluated when    *)
(* the def runs (they are before Python 3.14), whether transformers is     *)
(* installed.                                                              *)
(***************************************************************************)
\* lines 19-75, in the order of the dictionary
CATEGORY_MAP ==
    <<<<"TESCO", "Groceries">>, <<"ASDA", "Groceries">>, <<"MORRISONS", "Groceries">>,
      <<"SAINSBURY", "Groceries">>, <<"WHOLE FOODS", "Groceries">>,
      <<"SAFEWAY", "Groceries">>, <<"TRADER JOE", "Groceries">>, <<"KROGER", "Groceries">>,
      <<"UBER", "Transport">>, <<"LYFT", "Transport">>, <<"TAXI", "Transport">>,
      <<"AMTRAK", "Transport">>, <<"DELTA", "Transport">>, <<"UNITED", "Transport">>,
      <<"SHELL", "Fuel">>, <<"BP", "Fuel">>, <<"CHEVRON", "Fuel">>, <<"EXXON", "Fuel">>,
      <<"MOBIL", "Fuel">>,
      <<"AMAZON", "Shopping">>, <<"EBAY", "Shopping">>, <<"TARGET", "Shopping">>,
      <<"WALMART", "Shopping">>, <<"CVS", "Shopping">>, <<"WALGREENS", "Shopping">>,
      <<"NETFLIX", "Entertainment">>, <<"SPOTIFY", "Entertainment">>,
      <<"HULU", "Entertainment">>, <<"DISNEY", "Entertainment">>,
      <<"MOVIE", "Entertainment">>, <<"CINEMA", "Entertainment">>,
      <<"STARBUCKS", "Restaurants">>, <<"MCDONALD", "Restaurants">>,
      <<"BURGER", "Restaurants">>, <<"PIZZA", "Restaurants">>,
      <<"RESTAURANT", "Restaurants">>, <<"CAFÉ", "Restaurants">>,
      <<"HOSPITAL", "Healthcare">>, <<"CLINIC", "Healthcare">>,
      <<"PHARMACY", "Healthcare">>, <<"DOCTOR", "Healthcare">>, <<"MEDICAL", "Healthcare">>,
      <<"ATT", "Utilities">>, <<"VERIZON", "Utilities">>, <<"COMCAST", "Utilities">>,
      <<"ELECTRIC", "Utilities">>, <<"WATER", "Utilities">>, <<"GAS", "Utilities">>>>

\* lines 11-16: the flag is False after the import and after its failure
AdvancedNlpAvailable(found) == FALSE

\* line 80: the annotation Optional[TransformerNLPEngine] names a class that
\* line 12 has bound only when the import succeeded
DefRaises(env) == env.eager_annotations /\ ~env.advanced_nlp

\* lines 10-89 run by the import statement of a client
ImportedModule(env) ==
    [env |-> env,
     imported |-> IF DefRaises(env) THEN "NameError" ELSE "yes",
     ADVANCED_NLP_AVAILABLE |-> AdvancedNlpAvailable(env.advanced_nlp),
     nlp_engine |-> None,
     calls |-> <<>>]

\* the module before a client imports it
Unimported(env) ==
    [env |-> env, imported |-> "no", ADVANCED_NLP_AVAILABLE |-> FALSE,
     nlp_engine |-> None, calls |-> <<>>]

Environments ==
    [advanced_nlp : BOOLEAN, eager_annotations : BOOLEAN, transformers : BOOLEAN]

NotImported ==
    Unimported([advanced_nlp |-> TRUE, eager_annotations |-> TRUE, transformers |-> FALSE])

\* get_nlp_engine (lines 82-89): the singleton after the call
GetNlpEngine(m) ==
    IF m.ADVANCED_NLP_AVAILABLE /\ ~m.nlp_engine.some
    THEN Some(TransformerNLPEngine(m.env.transformers))
    ELSE m.nlp_engine

\* lines 106-108 on desc_upper: the position of the first key in it, 0 if none
FirstKeyIn(desc_upper) ==
    MinOrZero({i \in 1..Len(CATEGORY_MAP) : IsSub(CATEGORY_MAP[i][1], desc_upper)})

\* lines 111-119, engine being the result of get_nlp_engine(): the categories
\* the call may return
SemanticOrOther(engine) ==
    IF engine.some THEN CategorizeTransactionDescription(engine.v) ELSE {"Other"}

\* categorise (lines 100-119): the categories the call may return
Categorise(description, m) ==
    IF description = "" THEN {"Other"}
    ELSE IF FirstKeyIn(Upper(description)) # 0
    THEN {CATEGORY_MAP[FirstKeyIn(Upper(description))][2]}
    ELSE SemanticOrOther(GetNlpEngine(m))

\* categorise leaves the singleton as its call of get_nlp_engine, if any, set it
EngineAfterCategorise(description, m) ==
    IF description = "" \/ FirstKeyIn(Upper(description)) # 0
    THEN m.nlp_engine
    ELSE GetNlpEngine(m)

\* the router of advanced_nlp and the categorisation module at rest
NoModules ==
    /\ hybrid = HybridNLPRouter(FALSE)
    /\ categorisation = NotImported

\* AnomalyDetector.__init__: is_fitted False; calls is the history of the calls
\* made on the object, each with the outcome it had
NewDetector == [is_fitted |-> FALSE, calls |-> <<>>]

\* a call at its entry, as the record of its local state
CallOf(p) ==
    [pieces |-> p, query |-> Join(p), pc |-> "start", route |-> "",
     params |-> EmptyParams, trace |-> <<>>]

\* no second call in flight
NoCall == CallOf(<<>>)

InitCall(pool, stores) ==
    /\ pieces \in PieceSeqs(pool)
    /\ query = Join(pieces)
    /\ df \in stores
    /\ nanAsText \in NanChoices(df)
    /\ pc = "start"
    /\ route = ""
    /\ params = EmptyParams
    /\ trace = <<>>
    /\ detector = NewDetector

InitWith(pool, stores) ==
    /\ InitCall(pool, stores)
    /\ other = NoCall
    /\ NoModules

Init == InitWith(Pieces, Stores)

\* the guard testing the empty string alone
IsBlankEmptyOnly(q) == q = ""

\* not query or not query.strip()
IsBlank(q) == q = "" \/ Strip(q, WhitespaceChars) = ""

\* df is not None and not df.empty
StoreUsable(d) == d.present /\ ~IsEmpty(d)

\* lines 237-249: the guard on the empty query, the parameter map, the store test
\* lines 237-245 with params one dictionary of the module, shared by the calls:
\* the keys the other call has written are still in it
GuardSharedParams ==
    /\ pc = "start"
    /\ trace' = Append(trace, "guard")
    /\ IF IsBlank(query)
       THEN /\ route' = "SUMMARY"
            /\ params' = EmptyParams
            /\ pc' = "done"
       ELSE /\ route' = route
            /\ params' = With(other.params, "query", query)
            /\ pc' = IF StoreUsable(df) THEN "category" ELSE "keyword"
    /\ UNCHANGED <<pieces, query, df, nanAsText, aside>>

Guard ==
    /\ pc = "start"
    /\ trace' = Append(trace, "guard")
    /\ IF IsBlank(query)
       THEN /\ route' = "SUMMARY"
            /\ params' = EmptyParams
            /\ pc' = "done"
       ELSE /\ route' = route
            /\ params' = With(EmptyParams, "query", query)
            /\ pc' = IF StoreUsable(df) THEN "category" ELSE "keyword"
    /\ UNCHANGED <<pieces, query, df, nanAsText, aside>>

\* lines 251-254 without the return: the category is recorded and the call goes on
CategoryStepNoReturn(category) ==
    IF Truthy(category)
    THEN /\ params' = With(params, "category", category.v)
         /\ route' = "CATEGORY"
         /\ pc' = "merchant"
    ELSE /\ pc' = "merchant"
         /\ UNCHANGED <<route, params>>

\* p with the range added when there is one
CategoryAndRange(p, amount_range) ==
    IF amount_range # <<>>
    THEN With(With(p, "amount_min", amount_range[1]), "amount_max", amount_range[2])
    ELSE p

\* lines 251-254 with the amount range of the query added to a category decision
CategoryStepWithRange(category) ==
    IF Truthy(category)
    THEN /\ params' = CategoryAndRange(With(params, "category", category.v),
                                       ExtractAmountRange(query))
         /\ route' = "CATEGORY"
         /\ pc' = "done"
    ELSE /\ pc' = "merchant"
         /\ UNCHANGED <<route, params>>

\* lines 251-254, category being the extractor's result
CategoryStep(category) ==
    IF Truthy(category)
    THEN /\ params' = With(params, "category", category.v)
         /\ route' = "CATEGORY"
         /\ pc' = "done"
    ELSE /\ pc' = "merchant"
         /\ UNCHANGED <<route, params>>

\* df["category"].unique() raising ends the call with the exception
CategoryStage ==
    /\ pc = "category"
    /\ trace' = Append(trace, "category")
    /\ IF CategoryRaises(df)
       THEN /\ pc' = "raised"
            /\ UNCHANGED <<route, params>>
       ELSE CategoryStep(ExtractCategoryFromDataframe(query, df))
    /\ UNCHANGED <<pieces, query, df, nanAsText, aside>>

\* the two bounds of the range stored under each other's key
WithRangeSwapped(p, range) == With(With(p, "amount_min", range[2]), "amount_max", range[1])

\* params with amount_min and amount_max set from a range
WithRange(p, range) == With(With(p, "amount_min", range[1]), "amount_max", range[2])

\* lines 260-264 left out: the merchant decision never carries a range
WithoutRange(p, amount_range) == p

\* lines 260-264
WithRangeIfAny(p, amount_range) ==
    IF amount_range # <<>> THEN WithRange(p, amount_range) ELSE p

\* lines 257-265, merchant being the extractor's result
MerchantStep(merchant) ==
    IF Truthy(merchant)
    THEN /\ params' = WithRangeIfAny(With(params, "merchant", merchant.v),
                                     ExtractAmountRange(query))
         /\ route' = "SEARCH"
         /\ pc' = "done"
         /\ trace' = trace \o <<"merchant", "amount">>
    ELSE /\ pc' = "amount"
         /\ trace' = Append(trace, "merchant")
         /\ UNCHANGED <<route, params>>

MerchantStage ==
    /\ pc = "merchant"
    /\ MerchantStep(ExtractMerchantFromQuery(query, df))
    /\ UNCHANGED <<pieces, query, df, nanAsText, aside>>

\* lines 268-272 without the return: the range is recorded and the call goes on
AmountStepNoReturn(amount_range) ==
    IF amount_range # <<>>
    THEN /\ params' = WithRange(params, amount_range)
         /\ pc' = "search"
         /\ UNCHANGED route
    ELSE /\ pc' = "search"
         /\ UNCHANGED <<route, params>>

\* lines 268-272, amount_range being the parser's result
AmountStep(amount_range) ==
    IF amount_range # <<>>
    THEN /\ params' = WithRange(params, amount_range)
         /\ route' = "SEARCH"
         /\ pc' = "done"
    ELSE /\ pc' = "search"
         /\ UNCHANGED <<route, params>>

AmountStage ==
    /\ pc = "amount"
    /\ trace' = Append(trace, "amount")
    /\ AmountStep(ExtractAmountRange(query))
    /\ UNCHANGED <<pieces, query, df, nanAsText, aside>>

\* lines 280-285, search_result being what search_transactions returned
\* lines 283-285 without line 284: the rows are stored without the
\* is_fuzzy_search mark
FreeTextStepUnmarked(search_result) ==
    IF UsefulFilter(search_result, df)
    THEN /\ params' = With(params, "search_result", search_result)
         /\ route' = "SEARCH"
         /\ pc' = "done"
    ELSE /\ pc' = "keyword"
         /\ UNCHANGED <<route, params>>

FreeTextStep(search_result) ==
    IF UsefulFilter(search_result, df)
    THEN /\ params' = With(With(params, "search_result", search_result),
                           "is_fuzzy_search", TRUE)
         /\ route' = "SEARCH"
         /\ pc' = "done"
    ELSE /\ pc' = "keyword"
         /\ UNCHANGED <<route, params>>

\* lines 276-285 with the filter applied to the store itself (df = df[mask])
FreeTextStageInPlace ==
    /\ pc = "search"
    /\ IF Len(QueryWords(query)) > 1
       THEN /\ trace' = Append(trace, "search")
            /\ FreeTextStep(SearchTransactions(query, df, nanAsText))
            /\ df' = [df EXCEPT !.rows =
                         SelectSeq(df.rows, LAMBDA row :
                             \E r \in Range(SearchTransactions(query, df, nanAsText)) :
                                 df.rows[r] = row)]
       ELSE /\ pc' = "keyword"
            /\ UNCHANGED <<route, params, trace, df>>
    /\ UNCHANGED <<pieces, query, nanAsText, aside>>

\* lines 276-285
FreeTextStage ==
    /\ pc = "search"
    /\ IF Len(QueryWords(query)) > 1
       THEN /\ trace' = Append(trace, "search")
            /\ FreeTextStep(SearchTransactions(query, df, nanAsText))
       ELSE /\ pc' = "keyword"
            /\ UNCHANGED <<route, params, trace>>
    /\ UNCHANGED <<pieces, query, df, nanAsText, aside>>

\* lines 312-316, best being the chosen entry of route_scores
KeywordStep(best) ==
    /\ route' = best[1]
    /\ params' = With(params, "route_score", best[2])

\* lines 288-316
KeywordStage ==
    /\ pc = "keyword"
    /\ trace' = Append(trace, "keyword")
    /\ KeywordStep(BestRoute(RouteScores(query)))
    /\ pc' = "done"
    /\ UNCHANGED <<pieces, query, df, nanAsText, aside>>

Next ==
    \/ Guard
    \/ CategoryStage
    \/ MerchantStage
    \/ AmountStage
    \/ FreeTextStage
    \/ KeywordStage

Spec == Init /\ [][Next]_vars

\* the same calls on queries made of amount phrases
AmountStores == {NoStore, Store(NotesColumns, SubSeq(Notes, 2, 3))}

InitAmount == InitWith(AmountPieces, AmountStores)

SpecAmount == InitAmount /\ [][Next]_vars

\* the same calls on stores that have none of the columns the router names
PlainColumns == <<"memo">>

Plain == << <<StrCell("")>>, <<StrCell("TESCO")>>, <<StrCell("SHELL")>> >>

PlainStores == {Store(PlainColumns, w) : w \in Windows(Plain)}

InitPlain == InitWith(Pieces, PlainStores)

SpecPlain == InitPlain /\ [][Next]_vars

\* the same calls on queries made of intent keywords and hint words
KeywordPieces == {"weird", "health", "Trend", "total overview", "spent", "vs", "TESCO"}

InitKeyword == InitWith(KeywordPieces, AmountStores)

SpecKeyword == InitKeyword /\ [][Next]_vars

\* the same calls on queries made of category words, on stores with a category
\* column
CategoryPieces == {"dining", "Food", "fule", "weird", "breakdown"}

CategoryStores ==
    {NoStore, Store(NotesColumns, SubSeq(Notes, 2, 3))}
    \cup {Store(LedgerColumns, w) : w \in Windows(Ledger)}

InitCategory == InitWith(CategoryPieces, CategoryStores)

SpecCategory == InitCategory /\ [][Next]_vars

\* the same calls on stores whose columns hold values that different terms of a
\* query hit: a description and a merchant column, and an amount column
\* declared before the description
ShopColumns == <<"description", "merchant">>

Shops ==
    << <<StrCell("CARD PAYMENT"), StrCell("SHELF")>>,
       <<StrCell("DIRECT DEBIT"), StrCell("SHELL GARAGE")>>,
       <<StrCell("CASH"),         StrCell("TESCO")>> >>

TillColumns == <<"amount", "description">>

Till ==
    << <<NumCell("50.0"), StrCell("TESCO 50")>>,
       <<NumCell("7.25"), StrCell("SHELL")>> >>

MerchantPieces == {"shell", "payment", "tesco", "50", "weird"}

MerchantStores ==
    {Store(ShopColumns, w) : w \in Windows(Shops)}
    \cup {Store(TillColumns, w) : w \in Windows(Till)}

InitMerchant == InitWith(MerchantPieces, MerchantStores)

SpecMerchant == InitMerchant /\ [][Next]_vars

\* the same calls on stores with a column whose processing raises: two columns
\* carry the label note
TwinColumns == <<"note", "note", "description">>

Twin ==
    << <<StrCell("TESCO CARD"), StrCell("a"), StrCell("SHELL")>>,
       <<StrCell("TESCO"),      StrCell("b"), StrCell("UBER")>>,
       <<StrCell("SHELL"),      StrCell("c"), StrCell("TESCO EXPRESS")>> >>

TwinPieces == {"tesco", "shell", "weird", "over 100"}

TwinStores == {Store(TwinColumns, w) : w \in Windows(Twin)}

InitTwin == InitWith(TwinPieces, TwinStores)

SpecTwin == InitTwin /\ [][Next]_vars

\* the same calls on queries whose words carry punctuation
TermPieces == {"!!", "TESCO!", "shell", "weird", "over 100"}

InitTerms == InitWith(TermPieces, AmountStores)

SpecTerms == InitTerms /\ [][Next]_vars

\* the same calls on stores whose first description is empty, on which the
\* merchant extractor returns '' and the free-text search is reached
SearchPieces == {"the", "TESCO", "shell", "nan", "weird"}

SearchStores == {Store(NotesColumns, w) : w \in Windows(Notes)}

InitSearch == InitWith(SearchPieces, SearchStores)

SpecSearch == InitSearch /\ [][Next]_vars

(***************************************************************************)
(* Two calls in flight on one store.  The call that is running has its     *)
(* locals in pieces, query, pc, route, params, trace; the locals of the     *)
(* suspended call are the record other.  df is the one store both read.    *)
(***************************************************************************)
TwoPieces == {"TESCO", "over 100", "weird"}

TwoStores == {NoStore, Store(NotesColumns, SubSeq(Notes, 2, 3))}

\* the locals of the running call
Running ==
    [pieces |-> pieces, query |-> query, pc |-> pc, route |-> route,
     params |-> params, trace |-> trace]

\* the scheduler suspends the running call and resumes the other one
Switch ==
    /\ other' = Running
    /\ pieces' = other.pieces
    /\ query' = other.query
    /\ pc' = other.pc
    /\ route' = other.route
    /\ params' = other.params
    /\ trace' = other.trace
    /\ UNCHANGED <<df, nanAsText, detector, hybrid, categorisation>>

\* the thread whose call has returned makes its next call, on the same store
NewCall ==
    /\ pc = "done"
    /\ pieces' \in PieceSeqs(TwoPieces)
    /\ query' = Join(pieces')
    /\ pc' = "start"
    /\ route' = ""
    /\ params' = EmptyParams
    /\ trace' = <<>>
    /\ UNCHANGED <<df, nanAsText, aside>>

NextTwo ==
    \/ Next
    \/ Switch
    \/ NewCall

InitTwo ==
    /\ InitCall(TwoPieces, TwoStores)
    /\ other \in {CallOf(p) : p \in PieceSeqs(TwoPieces)}
    /\ NoModules

SpecTwo == InitTwo /\ [][NextTwo]_vars

(***************************************************************************)
(* anomaly_model.AnomalyDetector.  The argument of a call is a DataFrame   *)
(* with an amount column ("frame") or a numpy array ("ndarray", what the   *)
(* tests pass); a result is kept as "returned", an exception by its class. *)
(***************************************************************************)
DataKinds == {"frame", "ndarray"}

\* the methods the class defines
Methods == {"fit", "score", "is_anomaly"}

\* the methods the tests call that the class does not define
MissingMethods == {"predict", "get_anomaly_scores", "fit_predict"}

\* df[["amount"]]: a list of labels indexes a frame, and is no index of an array
SelectAmount(data) == IF data = "frame" THEN "returned" ELSE "IndexError"

\* the detector after a call op(data) that ended with outcome and left
\* is_fitted at fitted
AfterCall(op, data, outcome, fitted) ==
    [is_fitted |-> fitted,
     calls |-> Append(detector.calls,
                      [op |-> op, data |-> data, fitted |-> detector.is_fitted,
                       outcome |-> outcome])]

\* the router's variables, which no call on a detector touches
router == <<pieces, query, df, nanAsText, pc, route, params, trace, other>>

\* lines 28-30
Fit(data) ==
    /\ Len(detector.calls) < MaxCalls
    /\ detector' = AfterCall("fit", data, SelectAmount(data),
                             IF SelectAmount(data) = "returned" THEN TRUE
                             ELSE detector.is_fitted)
    /\ UNCHANGED <<router, hybrid, categorisation>>

\* lines 32-38
ScoreFrame(data) ==
    /\ Len(detector.calls) < MaxCalls
    /\ detector' = AfterCall("score", data,
                             IF ~detector.is_fitted THEN "RuntimeError"
                             ELSE SelectAmount(data),
                             detector.is_fitted)
    /\ UNCHANGED <<router, hybrid, categorisation>>

\* lines 40-47, transaction being a dict with the key amount
IsAnomaly ==
    /\ Len(detector.calls) < MaxCalls
    /\ detector' = AfterCall("is_anomaly", "dict",
                             IF ~detector.is_fitted THEN "RuntimeError" ELSE "returned",
                             detector.is_fitted)
    /\ UNCHANGED <<router, hybrid, categorisation>>

\* a call of a method the class does not define: the attribute lookup fails
NoSuchMethod(op, data) ==
    /\ Len(detector.calls) < MaxCalls
    /\ op \notin Methods
    /\ detector' = AfterCall(op, data, "AttributeError", detector.is_fitted)
    /\ UNCHANGED <<router, hybrid, categorisation>>

NextDetector ==
    \/ \E data \in DataKinds : Fit(data)
    \/ \E data \in DataKinds : ScoreFrame(data)
    \/ IsAnomaly
    \/ \E op \in MissingMethods, data \in DataKinds : NoSuchMethod(op, data)

InitDetector == InitWith({}, {NoStore})

SpecDetector == InitDetector /\ [][NextDetector]_vars

(***************************************************************************)
(* Calls on a HybridNLPRouter and on its engine.                           *)
(***************************************************************************)
HybridQueries ==
    {"", "Help me budget better", "Total SCORE trend", "trend of all I spend",
     "odd category", "changes"}

EngineTexts == {"Help me budget better"}

\* the router after a call op(text) that returned result
AfterHybridCall(op, text, result) ==
    [hybrid EXCEPT !.calls = Append(@, [op |-> op, query |-> text, result |-> result])]

\* what no call on the router of advanced_nlp touches
beside == <<router, detector, categorisation>>

\* HybridNLPRouter.route_query
HybridRouteQuery(q) ==
    /\ Len(hybrid.calls) < MaxCalls
    /\ \E result \in HybridRoute(hybrid, KeywordRoute(q)) :
           hybrid' = AfterHybridCall("route_query", q, result)
    /\ UNCHANGED beside

\* HybridNLPRouter.get_query_summary (lines 262-264)
GetQuerySummary(q) ==
    /\ Len(hybrid.calls) < MaxCalls
    /\ \E result \in SummarizeQuery(hybrid.transformer_engine.v) :
           hybrid' = AfterHybridCall("get_query_summary", q, result)
    /\ UNCHANGED beside

\* transformer_engine.classify_intent
ClassifyIntentCall(q) ==
    /\ Len(hybrid.calls) < MaxCalls
    /\ \E result \in ClassifyIntent(hybrid.transformer_engine.v) :
           hybrid' = AfterHybridCall("classify_intent", q, result)
    /\ UNCHANGED beside

\* transformer_engine.extract_entities
ExtractEntitiesCall(q) ==
    /\ Len(hybrid.calls) < MaxCalls
    /\ \E result \in ExtractEntities(hybrid.transformer_engine.v) :
           hybrid' = AfterHybridCall("extract_entities", q, result)
    /\ UNCHANGED beside

\* transformer_engine.categorize_transaction_description, and with it
\* find_semantic_similarity
CategorizeCall(q) ==
    /\ Len(hybrid.calls) < MaxCalls
    /\ \E result \in CategorizeTransactionDescription(hybrid.transformer_engine.v) :
           hybrid' = AfterHybridCall("categorize_transaction_description", q, result)
    /\ UNCHANGED beside

NextHybrid ==
    \/ \E q \in HybridQueries : HybridRouteQuery(q)
    \/ \E q \in EngineTexts : GetQuerySummary(q)
    \/ \E q \in EngineTexts : ClassifyIntentCall(q)
    \/ \E q \in EngineTexts : ExtractEntitiesCall(q)
    \/ \E q \in EngineTexts : CategorizeCall(q)

\* a router constructed with or without the transformers package installed
InitHybrid ==
    /\ InitCall({}, {NoStore})
    /\ other = NoCall
    /\ hybrid \in {HybridNLPRouter(t) : t \in BOOLEAN}
    /\ categorisation = NotImported

SpecHybrid == InitHybrid /\ [][NextHybrid]_vars

(***************************************************************************)
(* Clients of categorisation: each imports the module, as data_prep does,  *)
(* and calls it; a client whose import raises gets the exception.          *)
(***************************************************************************)
Descriptions ==
    {"", "tesco", "united gas", "Vegas trip", "Starbucks Seattle", "nothing"}

\* the module after a call op(text) with the outcome result, engine being the
\* singleton it leaves
AfterModuleCall(op, text, result, engine) ==
    [categorisation EXCEPT
        !.nlp_engine = engine,
        !.calls = Append(@, [op |-> op, description |-> text, result |-> result])]

\* what no call on the categorisation module touches
apart == <<router, detector, hybrid>>

\* from categorisation import categorise, the first time
Import ==
    /\ categorisation.imported = "no"
    /\ categorisation' = ImportedModule(categorisation.env)
    /\ UNCHANGED apart

\* the import repeated by a later client raises as the first did
ImportRaises(op, text) ==
    /\ categorisation.imported = "NameError"
    /\ Len(categorisation.calls) < MaxCalls
    /\ categorisation' = AfterModuleCall(op, text, "NameError", categorisation.nlp_engine)
    /\ UNCHANGED apart

\* get_nlp_engine(), also as TransactionCategorizer.__init__ calls it
GetNlpEngineCall ==
    /\ categorisation.imported = "yes"
    /\ Len(categorisation.calls) < MaxCalls
    /\ categorisation' = AfterModuleCall("get_nlp_engine", "",
                                         IF GetNlpEngine(categorisation).some
                                         THEN "engine" ELSE "None",
                                         GetNlpEngine(categorisation))
    /\ UNCHANGED apart

\* categorise(description)
CategoriseCall(description) ==
    /\ categorisation.imported = "yes"
    /\ Len(categorisation.calls) < MaxCalls
    /\ \E result \in Categorise(description, categorisation) :
           categorisation' = AfterModuleCall("categorise", description, result,
                                 EngineAfterCategorise(description, categorisation))
    /\ UNCHANGED apart

NextCategorisation ==
    \/ Import
    \/ \E d \in Descriptions : ImportRaises("categorise", d)
    \/ GetNlpEngineCall
    \/ \E d \in Descriptions : CategoriseCall(d)

InitCategorisation ==
    /\ InitCall({}, {NoStore})
    /\ other = NoCall
    /\ hybrid = HybridNLPRouter(FALSE)
    /\ categorisation \in {Unimported(env) : env \in Environments}

SpecCategorisation == InitCategorisation /\ [][NextCategorisation]_vars

(***************************************************************************)
(* Properties of route_query.                                              *)
(***************************************************************************)
\* every character of s is whitespace (the empty string included)
AllWhitespace(s) == \A i \in 1..Len(s) : Ch(s, i) \in WhitespaceChars

\* the string values of a column of the store
StringValues(d, col) ==
    IF HasColumn(d, col)
    THEN {c.s : c \in {x \in Range(Column(d, col)) : x.k = "str"}}
    ELSE {}

\* C1: for every query that is empty or only whitespace, whatever the store, the
\* call ends at the guard with route SUMMARY and an empty parameter map.
C1_BlankQuerySummary ==
    (AllWhitespace(query) /\ pc # "start") =>
        /\ pc = "done"
        /\ route = "SUMMARY"
        /\ params = EmptyParams
        /\ trace = <<"guard">>

\* a whitespace-only query on a store with rows has been answered
C1_BlankOnStore ==
    /\ pc = "done"
    /\ query # ""
    /\ AllWhitespace(query)
    /\ StoreUsable(df)
    /\ route = "SUMMARY"
    /\ params = EmptyParams

\* C2: on a store whose category column holds the value C, a query equal to C up
\* to letter case is routed to CATEGORY with the parameter category equal to C
\* itself.
C2_QueryEqualToCategory ==
    (pc = "done" /\ StoreUsable(df)) =>
        \A C \in StringValues(df, "category") :
            Lower(query) = Lower(C) =>
                /\ route = "CATEGORY"
                /\ Has(params, "category")
                /\ params.category = C

\* the category extractor returns no category (and does not raise)
CategoryFindsNothing(q, d) ==
    /\ ~CategoryRaises(d)
    /\ ~Truthy(ExtractCategoryFromDataframe(q, d))

\* the precondition of C3 for a description value D
VerbatimDescription(D) ==
    /\ D # ""
    /\ IsSub(D, query)
    /\ CategoryFindsNothing(query, df)
    /\ ExtractAmountRange(query) = <<>>

\* C3 as stated: on a store with the (non-empty) description value D, a query that
\* contains D verbatim, has no category and no amount phrase, is routed to SEARCH
\* with the parameter merchant equal to D.
C3_MerchantIsDescription ==
    (pc = "done" /\ StoreUsable(df)) =>
        \A D \in StringValues(df, "description") :
            VerbatimDescription(D) =>
                /\ route = "SEARCH"
                /\ Has(params, "merchant")
                /\ params.merchant = D

\* the values of all columns of the store, as the merchant extractor reads them
AllValues(d) == UNION {Range(ColValues(d, d.columns[i])) : i \in 1..Len(d.columns)}

\* a term of the query matches the value: one of the direct tests, or a ratio of
\* at least 0.7
TermHits(term, v) == DirectHit(term, v) \/ IsClose(Lower(v), term)

\* the values of the store that some term of the query matches
HitValues(q, d) ==
    {v \in AllValues(d) : \E t \in Range(QueryTerms(q)) : TermHits(t, v)}

\* C3 amended: under the same precondition the decision is SEARCH with merchant
\* equal to D whenever D is the only value of the store that a term of the query
\* matches; and a merchant that is returned is always one of the matched values
\* of the store, never the query term.
C3_MerchantIsOnlyHit ==
    (pc = "done" /\ StoreUsable(df)) =>
        /\ \A D \in StringValues(df, "description") :
               (VerbatimDescription(D) /\ HitValues(query, df) = {D}) =>
                   /\ route = "SEARCH"
                   /\ Has(params, "merchant")
                   /\ params.merchant = D
        /\ Has(params, "merchant") => params.merchant \in HitValues(query, df)

\* a query containing one description value of a store with several, the only
\* value matched, has been routed to SEARCH with that value
C3_OnlyHitReturned ==
    /\ pc = "done"
    /\ StoreUsable(df)
    /\ Cardinality(StringValues(df, "description")) >= 2
    /\ \E D \in StringValues(df, "description") :
           /\ VerbatimDescription(D)
           /\ HitValues(query, df) = {D}
           /\ route = "SEARCH"
           /\ Has(params, "merchant")
           /\ params.merchant = D

\* the stages in the order of the code
StageOrder == <<"guard", "category", "merchant", "amount", "search", "keyword">>

StageIndex(stage) == CHOOSE i \in 1..Len(StageOrder) : StageOrder[i] = stage

\* the stages of t ran in the order of StageOrder
InStageOrder(t) ==
    \A i \in 1..Len(t) : \A j \in 1..Len(t) :
        i < j => StageIndex(t[i]) < StageIndex(t[j])

\* the last stage that ran
LastStage(t) == t[Len(t)]

\* the decision of a call in which the category extractor found nothing
DecidedAfterCategory ==
    IF Truthy(ExtractMerchantFromQuery(query, df))
    THEN /\ route = "SEARCH"
         /\ Has(params, "merchant")
         /\ trace = <<"guard", "category", "merchant", "amount">>
    ELSE IF ExtractAmountRange(query) # <<>>
    THEN /\ route = "SEARCH"
         /\ Has(params, "amount_min")
         /\ ~Has(params, "merchant")
         /\ trace = <<"guard", "category", "merchant", "amount">>
    ELSE /\ LastStage(trace) \in {"search", "keyword"}
         /\ LastStage(trace) = "search" <=> Has(params, "search_result")
         /\ LastStage(trace) = "keyword" <=> Has(params, "route_score")

\* C4: the stages run in the order category, merchant, amount range, free-text
\* search, keyword scorer; the earliest stage that hits decides the route and
\* ends the call, so that no later stage runs after it or changes its decision.
C4_EarliestHitDecides ==
    /\ InStageOrder(trace)
    /\ route # "" => pc = "done"
    /\ (pc = "done" /\ ~AllWhitespace(query) /\ StoreUsable(df)) =>
           IF Truthy(ExtractCategoryFromDataframe(query, df))
           THEN /\ route = "CATEGORY"
                /\ Has(params, "category")
                /\ ~Has(params, "merchant")
                /\ ~Has(params, "route_score")
                /\ trace = <<"guard", "category">>
           ELSE DecidedAfterCategory

\* a call decided by the category stage although the merchant extractor, the
\* amount parser and an intent keyword would match too
C4_CategoryBeforeTheRest ==
    /\ pc = "done"
    /\ route = "CATEGORY"
    /\ trace = <<"guard", "category">>
    /\ Truthy(ExtractMerchantFromQuery(query, df))
    /\ \/ ExtractAmountRange(query) # <<>>
       \/ \E i \in 1..Len(RouteTypes) : Score(RouteTypes[i], Lower(query)) > 0

(***************************************************************************)
(* Properties of extract_amount_range, on queries made of amount phrases.  *)
(***************************************************************************)
\* the range each phrase denotes, in hundredths: N as written in the phrase
PhraseRange ==
    ("over 100" :> <<Fin(10000), PosInf>>)
    @@ ("more than 50" :> <<Fin(5000), PosInf>>)
    @@ ("greater than 7" :> <<Fin(700), PosInf>>)
    @@ ("less than 5" :> <<Fin(0), Fin(500)>>)
    @@ ("under 20" :> <<Fin(0), Fin(2000)>>)
    @@ ("between 10 and 50" :> <<Fin(1000), Fin(5000)>>)
    @@ ("over 12.5" :> <<Fin(1250), PosInf>>)
    @@ ("weird" :> <<>>)

\* the range the call has put in the parameter map, <<>> when it put none
RangeOf(p) ==
    IF Has(p, "amount_min") /\ Has(p, "amount_max")
    THEN <<p.amount_min, p.amount_max>>
    ELSE <<>>

\* C5: 'over N', 'more than N' and 'greater than N' give (N, +infinity), 'less
\* than N' and 'under N' give (0, N), 'between N and M' gives (N, M), and a query
\* with none of the phrases gives no result.
C5_PhraseGivesItsRange ==
    (/\ Len(pieces) = 1
     /\ pieces[1] \in DOMAIN PhraseRange
     /\ pc = "done"
     /\ "amount" \in Range(trace)) =>
        /\ ExtractAmountRange(query) = PhraseRange[pieces[1]]
        /\ RangeOf(params) = PhraseRange[pieces[1]]

\* the place of a phrase's pattern in the list, NumPatterns + 1 for no pattern
PatternRank(phrase) ==
    Min({k \in 1..NumPatterns : StartsWith(phrase, PatternWords[k])} \cup {NumPatterns + 1})

\* the leftmost of the phrases whose pattern comes first in the list
FirstRanked(ps) ==
    Min({i \in 1..Len(ps) : \A j \in 1..Len(ps) : PatternRank(ps[i]) <= PatternRank(ps[j])})

\* C6: on a query holding phrases of several patterns the result is the range of
\* the one phrase whose pattern comes first in the list, wherever the phrases
\* stand in the query; ranges are never combined.
C6_FirstListedPatternWins ==
    Len(pieces) >= 1 =>
        /\ ExtractAmountRange(query) = ExtractAmountRange(pieces[FirstRanked(pieces)])
        /\ (pc = "done" /\ "amount" \in Range(trace)) =>
               RangeOf(params) = ExtractAmountRange(pieces[FirstRanked(pieces)])

\* the call on  under 20 over 100  has returned (100, +infinity)
C6_LaterPhraseWins ==
    /\ pc = "done"
    /\ pieces = <<"under 20", "over 100">>
    /\ route = "SEARCH"
    /\ RangeOf(params) = <<Fin(10000), PosInf>>

(***************************************************************************)
(* Properties of the free-text search and of the keyword scorer.           *)
(***************************************************************************)
\* C7: a decision that carries search_result carries a non-empty result of
\* strictly fewer than half of the store's rows; a search that runs and selects
\* nothing, or half of the rows or more, is dropped and the keyword scorer
\* decides (route_score and no search_result).
C7_SearchResultIsMinority ==
    pc = "done" =>
        /\ Has(params, "search_result") =>
               /\ Len(params.search_result) > 0
               /\ 2 * Len(params.search_result) < Len(df.rows)
               /\ route = "SEARCH"
               /\ ~Has(params, "route_score")
        /\ ("search" \in Range(trace)
              /\ 2 * Len(SearchTransactions(query, df, nanAsText)) >= Len(df.rows)) =>
               /\ ~Has(params, "search_result")
               /\ Has(params, "route_score")
               /\ LastStage(trace) = "keyword"

\* a search that selected one row of three has been returned
C7_MinorityReturned ==
    /\ pc = "done"
    /\ Has(params, "search_result")
    /\ Len(params.search_result) = 1
    /\ Len(df.rows) = 3

\* C8 as stated: a free-text decision is made only on a query with at least two
\* terms left by the term extractor of the free-text search.
C8_TwoSearchTerms ==
    Has(params, "is_fuzzy_search") => Len(ExtractSearchTerms(query)) >= 2

\* the six words the router leaves out when it counts the words of the query
NoiseWords == {"transaction", "transactions", "spending", "spent", "show", "tell"}

\* the number of whitespace-separated words of q that are no noise words
CountedWords(q) ==
    Cardinality({i \in 1..Len(Split(q)) : Lower(Split(q)[i]) \notin NoiseWords})

\* C8 amended: a free-text decision is made only on a query with at least two
\* whitespace-separated words other than the six noise words; a query of a
\* single word never gets one.
C8_TwoCountedWords ==
    /\ Has(params, "is_fuzzy_search") =>
           /\ CountedWords(query) >= 2
           /\ Has(params, "search_result")
           /\ route = "SEARCH"
    /\ (pc = "done" /\ Len(Split(query)) <= 1) => ~Has(params, "is_fuzzy_search")

\* a free-text decision on a query with two counted words and one search term
C8_OneSearchTermSearched ==
    /\ pc = "done"
    /\ Has(params, "is_fuzzy_search")
    /\ CountedWords(query) = 2
    /\ Len(ExtractSearchTerms(query)) = 1

\* the keyword phrases of an intent
PhrasesOf(route_type) == Range(Keywords[route_type])

\* the score of an intent on q_lower does not fall when the phrase kw is added
\* at the end or at the start, with or without a space
NotLowered(r, kw, q_lower, score) ==
    /\ Score(r, q_lower \o " " \o kw) >= score
    /\ Score(r, q_lower \o kw) >= score
    /\ Score(r, kw \o " " \o q_lower) >= score

MonotonicFor(r, q_lower, score) == \A kw \in PhrasesOf(r) : NotLowered(r, kw, q_lower, score)

MonotonicOn(q_lower) ==
    \A r \in Range(RouteTypes) : MonotonicFor(r, q_lower, Score(r, q_lower))

\* C9: when the keyword scorer is about to score a query, for every intent and
\* every keyword phrase of the intent the score of the intent on the query
\* extended with the phrase is at least its score on the query.  The scorer reads
\* the query alone, and the calls without a store take every non-blank query to
\* it: the property is evaluated on those.
C9_ScoreMonotonic == (pc = "keyword" /\ ~df.present) => MonotonicOn(Lower(query))

\* the keyword scorer has decided a query whose intent scores more with one more
\* phrase
C9_ScoreGrows ==
    /\ pc = "done"
    /\ Has(params, "route_score")
    /\ params.route_score > DefaultScore
    /\ Score(route, Lower(query)) = params.route_score
    /\ \E kw \in PhrasesOf(route) :
           Score(route, Lower(query \o " " \o kw)) > params.route_score

\* C10: route_query returns a decision for every query and every store and
\* never raises.
C10_NeverRaises == pc # "raised"

(***************************************************************************)
(* Properties of the decisions of route_query, stage by stage.             *)
(***************************************************************************)
\* the score the scorer reports for the intent it chose on q_lower: the score of
\* the intent when it scores, one of the two heuristic scores when no intent does
ReportedScore(chosen, score, q_lower) ==
    IF Score(chosen, q_lower) > 0
    THEN score = Score(chosen, q_lower)
    ELSE /\ \A r \in Range(RouteTypes) : Score(r, q_lower) = 0
         /\ score \in {HeuristicScore, DefaultScore}

\* C11: the keyword scorer is reached with no decision made and no parameter but
\* query, and on a store with rows only after the category, merchant and amount
\* stages ran; its decision has exactly the keys query (the raw input) and
\* route_score (the score of the chosen intent).
C11_KeywordDecisionShape ==
    /\ pc = "keyword" =>
           /\ route = ""
           /\ params = With(EmptyParams, "query", query)
           /\ StoreUsable(df) => {"category", "merchant", "amount"} \subseteq Range(trace)
    /\ (pc = "done" /\ "keyword" \in Range(trace)) =>
           /\ LastStage(trace) = "keyword"
           /\ DOMAIN params = {"query", "route_score"}
           /\ params.query = query
           /\ route \in Range(RouteTypes)
           /\ ReportedScore(route, params.route_score, Lower(query))

\* the scorer has decided a call on a store with rows in which every extraction
\* stage ran, the free-text search included
C11_ScorerAfterAllStages ==
    /\ pc = "done"
    /\ StoreUsable(df)
    /\ trace = <<"guard", "category", "merchant", "amount", "search", "keyword">>
    /\ DOMAIN params = {"query", "route_score"}

\* the merchant extractor hits and the category extractor finds nothing
MerchantHits(q, d) ==
    /\ CategoryFindsNothing(q, d)
    /\ Truthy(ExtractMerchantFromQuery(q, d))

\* C12: when the merchant extractor hits and the category extractor did not, the
\* decision is SEARCH with the parameter merchant; amount_min and amount_max are
\* present exactly when the amount-range parser finds a range in the query, and
\* then they are that range.
C12_MerchantWithRange ==
    (pc = "done" /\ StoreUsable(df) /\ MerchantHits(query, df)) =>
        /\ route = "SEARCH"
        /\ Has(params, "merchant")
        /\ params.merchant = ExtractMerchantFromQuery(query, df).v
        /\ Has(params, "amount_min") <=> ExtractAmountRange(query) # <<>>
        /\ Has(params, "amount_max") <=> ExtractAmountRange(query) # <<>>
        /\ RangeOf(params) = ExtractAmountRange(query)
        /\ DOMAIN params \subseteq {"query", "merchant", "amount_min", "amount_max"}

\* a query naming a description of the store and an amount phrase has been
\* answered with the merchant and the range (100, +infinity)
C12_MerchantAndRangeReturned ==
    /\ pc = "done"
    /\ route = "SEARCH"
    /\ Has(params, "merchant")
    /\ params.merchant = "TESCO"
    /\ RangeOf(params) = <<Fin(10000), PosInf>>

\* a stage of the call before the amount stage has hit
EarlierStageHits(q, d) ==
    /\ ~CategoryRaises(d)
    /\ \/ Truthy(ExtractCategoryFromDataframe(q, d))
       \/ Truthy(ExtractMerchantFromQuery(q, d))

\* C13 as stated: whenever the category extractor or the merchant extractor hits
\* and the query holds an amount phrase, the decision carries amount_min and
\* amount_max with the parsed range.
C13_RangeMergedIntoAnyHit ==
    (/\ pc = "done"
     /\ StoreUsable(df)
     /\ ExtractAmountRange(query) # <<>>
     /\ EarlierStageHits(query, df)) =>
        RangeOf(params) = ExtractAmountRange(query)

\* C13 amended: the range of the query is added to the decision of the merchant
\* stage and of no other stage that hit before the amount stage: a category
\* decision has the keys query and category alone, also when the query holds an
\* amount phrase.
C13_RangeMergedIntoMerchantOnly ==
    (pc = "done" /\ StoreUsable(df) /\ ExtractAmountRange(query) # <<>>) =>
        /\ route = "CATEGORY" =>
               /\ DOMAIN params = {"query", "category"}
               /\ trace = <<"guard", "category">>
        /\ Has(params, "merchant") =>
               /\ route = "SEARCH"
               /\ RangeOf(params) = ExtractAmountRange(query)
               /\ trace = <<"guard", "category", "merchant", "amount">>

\* a category decision without a range on a query that holds an amount phrase
C13_CategoryWithoutRange ==
    /\ pc = "done"
    /\ route = "CATEGORY"
    /\ ExtractAmountRange(query) # <<>>
    /\ DOMAIN params = {"query", "category"}

\* C14: on a store with rows, when neither the category extractor nor the
\* merchant extractor hits and the query holds an amount phrase, the decision is
\* SEARCH with exactly the keys query, amount_min and amount_max, the two set to
\* the parsed range, and neither the free-text search nor the keyword scorer
\* runs.
C14_RangeAlone ==
    (/\ pc = "done"
     /\ StoreUsable(df)
     /\ ~EarlierStageHits(query, df)
     /\ ExtractAmountRange(query) # <<>>) =>
        /\ route = "SEARCH"
        /\ DOMAIN params = {"query", "amount_min", "amount_max"}
        /\ params.amount_min = ExtractAmountRange(query)[1]
        /\ params.amount_max = ExtractAmountRange(query)[2]
        /\ trace = <<"guard", "category", "merchant", "amount">>

\* the call on  over 100  with a store none of whose values the query matches has
\* returned the range (100, +infinity) alone
C14_RangeAloneReturned ==
    /\ pc = "done"
    /\ query = "over 100"
    /\ StoreUsable(df)
    /\ route = "SEARCH"
    /\ params = With(WithRange(EmptyParams, <<Fin(10000), PosInf>>), "query", query)

\* the store has none of the columns description, merchant, name, category, type
NoExpectedColumn(d) == \A i \in 1..Len(SearchColumns) : ~HasColumn(d, SearchColumns[i])

\* C15 as stated: on a store with rows and none of the expected columns no
\* extraction stage hits, on any query, and the keyword scorer decides: the
\* decision carries route_score and none of category, merchant, search_result.
C15_PlainStoreGoesToScorer ==
    (pc = "done" /\ StoreUsable(df) /\ NoExpectedColumn(df) /\ ~AllWhitespace(query)) =>
        /\ LastStage(trace) = "keyword"
        /\ Has(params, "route_score")
        /\ ~Has(params, "category")
        /\ ~Has(params, "merchant")
        /\ ~Has(params, "search_result")

\* C15 amended: on such a store the category extractor and the free-text search
\* return nothing on any query, while the merchant extractor (which scans every
\* column the store has) and the amount-range parser can still hit; the keyword
\* scorer decides exactly when neither of the two hits.
C15_PlainStoreSkipsCategoryAndSearch ==
    (pc = "done" /\ StoreUsable(df) /\ NoExpectedColumn(df) /\ ~AllWhitespace(query)) =>
        /\ ~Truthy(ExtractCategoryFromDataframe(query, df))
        /\ SearchTransactions(query, df, nanAsText) = <<>>
        /\ route # "CATEGORY"
        /\ ~Has(params, "category")
        /\ ~Has(params, "search_result")
        /\ IF Truthy(ExtractMerchantFromQuery(query, df))
           THEN route = "SEARCH" /\ Has(params, "merchant") /\ ~Has(params, "route_score")
           ELSE IF ExtractAmountRange(query) # <<>>
           THEN route = "SEARCH" /\ Has(params, "amount_min") /\ ~Has(params, "route_score")
           ELSE LastStage(trace) = "keyword" /\ Has(params, "route_score")

\* on a store with the one column memo, a free-text search ran and selected
\* nothing, and the scorer decided
C15_SearchFoundNothing ==
    /\ pc = "done"
    /\ StoreUsable(df)
    /\ NoExpectedColumn(df)
    /\ trace = <<"guard", "category", "merchant", "amount", "search", "keyword">>
    /\ \E i \in 1..Len(df.rows) : df.rows[i][1].s = "TESCO"
    /\ IsSub("TESCO", query)
    /\ Has(params, "route_score")

\* C16: no step of route_query, on any path (the free-text search with its row
\* mask and filtered row set included), changes the store passed in: its
\* columns, rows and values after the step are those before it.
C16_StoreOnlyRead ==
    [][/\ df'.present = df.present
       /\ df'.columns = df.columns
       /\ df'.rows = df.rows]_vars

\* a free-text search has returned a filtered row set, and the store still is
\* one of the stores the calls are given, with its three rows
C16_FilteredSetReturned ==
    /\ pc = "done"
    /\ LastStage(trace) = "search"
    /\ Has(params, "search_result")
    /\ df \in Stores
    /\ Len(df.rows) = 3
    /\ Len(params.search_result) < Len(df.rows)

\* the decision of route_query(q, d) as a function of its two arguments: the
\* stages of lines 237-316 composed in their order, for a call on its own
DecisionWithStore(q, d, asText, p) ==
    IF Truthy(ExtractCategoryFromDataframe(q, d))
    THEN [route |-> "CATEGORY",
          params |-> With(p, "category", ExtractCategoryFromDataframe(q, d).v)]
    ELSE IF Truthy(ExtractMerchantFromQuery(q, d))
    THEN [route |-> "SEARCH",
          params |-> WithRangeIfAny(With(p, "merchant", ExtractMerchantFromQuery(q, d).v),
                                    ExtractAmountRange(q))]
    ELSE IF ExtractAmountRange(q) # <<>>
    THEN [route |-> "SEARCH", params |-> WithRange(p, ExtractAmountRange(q))]
    ELSE IF Len(QueryWords(q)) > 1 /\ UsefulFilter(SearchTransactions(q, d, asText), d)
    THEN [route |-> "SEARCH",
          params |-> With(With(p, "search_result", SearchTransactions(q, d, asText)),
                          "is_fuzzy_search", TRUE)]
    ELSE [route |-> BestRoute(RouteScores(q))[1],
          params |-> With(p, "route_score", BestRoute(RouteScores(q))[2])]

RouteQueryAlone(q, d, asText) ==
    IF IsBlank(q) THEN [route |-> "SUMMARY", params |-> EmptyParams]
    ELSE IF StoreUsable(d) THEN DecisionWithStore(q, d, asText, With(EmptyParams, "query", q))
    ELSE [route |-> BestRoute(RouteScores(q))[1],
          params |-> With(With(EmptyParams, "query", q), "route_score",
                          BestRoute(RouteScores(q))[2])]

\* C17: with two calls interleaved stage by stage on one shared store, and
\* whatever calls the two threads made before, a call that has returned has the
\* decision its own (query, store) arguments give to a call run alone, and two
\* returned calls with equal arguments have equal decisions.
C17_DecisionOfArgumentsOnly ==
    /\ pc = "done" =>
           [route |-> route, params |-> params] = RouteQueryAlone(query, df, nanAsText)
    /\ (pc = "done" /\ other.pc = "done" /\ other.query = query) =>
           (other.route = route /\ other.params = params)

\* a call has returned a merchant decision while the other call, with another
\* query on the same store, is suspended between two of its stages holding
\* a parameter map of its own
C17_ReturnedWhileOtherSuspended ==
    /\ pc = "done"
    /\ Has(params, "merchant")
    /\ other.pc = "search"
    /\ other.query # query
    /\ other.trace = <<"guard", "category", "merchant", "amount">>
    /\ other.params = With(EmptyParams, "query", other.query)

(***************************************************************************)
(* Properties of the keyword scorer on queries of keywords and hint words. *)
(***************************************************************************)
\* the score of the i-th intent of the table on the query of the call
ScoreAt(i) == Score(RouteTypes[i], Lower(query))

\* the scorer has produced the decision of the call
ScorerDecided == pc = "done" /\ LastStage(trace) = "keyword"

\* C19: when at least one intent has a nonzero score, the scorer returns the
\* intent with the highest score, the one declared first in the table among
\* those that share it, and route_score is that score.
C19_HighestScoreFirstDeclared ==
    (ScorerDecided /\ \E i \in 1..Len(RouteTypes) : ScoreAt(i) > 0) =>
        \E i \in 1..Len(RouteTypes) :
            /\ route = RouteTypes[i]
            /\ params.route_score = ScoreAt(i)
            /\ \A j \in 1..Len(RouteTypes) : ScoreAt(j) <= ScoreAt(i)
            /\ \A j \in 1..(i - 1) : ScoreAt(j) < ScoreAt(i)

\* ANOMALIES and HEALTH both score 10 on 'health weird', and ANOMALIES, declared
\* before HEALTH, has been returned
C19_TieGoesToFirstDeclared ==
    /\ ScorerDecided
    /\ query = "health weird"
    /\ ScoreAt(2) = ScoreAt(3)
    /\ route = "ANOMALIES"
    /\ params.route_score = 10

\* the words of the two heuristics
AmountWords == {"how much", "total", "amount", "cost", "price", "spent"}
CompareWords == {"compare", "versus", "vs", "better", "worse"}

PredictionOps == {"predict", "score", "is_anomaly"}

Exceptions == {"RuntimeError", "AttributeError", "IndexError", "ValueError"}

\* C18 as stated: a detector starts unfitted; a prediction operation called
\* before fit raises an error and returns nothing, a ValueError when the
\* operation is predict; after fit has returned is_fitted is true and the
\* prediction operations of the class succeed on a frame or a transaction.
C18_PredictBeforeFitRaisesValueError ==
    /\ detector.calls = <<>> => ~detector.is_fitted
    /\ \A i \in 1..Len(detector.calls) :
           /\ (detector.calls[i].op = "fit" /\ detector.calls[i].outcome = "returned") =>
                  \A j \in (i + 1)..Len(detector.calls) : detector.calls[j].fitted
           /\ detector.calls[i].op \in PredictionOps =>
                  IF detector.calls[i].fitted
                  THEN (detector.calls[i].op \in Methods /\ detector.calls[i].data # "ndarray")
                           => detector.calls[i].outcome = "returned"
                  ELSE /\ detector.calls[i].outcome \in Exceptions
                       /\ detector.calls[i].op = "predict" =>
                              detector.calls[i].outcome = "ValueError"

(***************************************************************************)
(* Properties of extract_category_from_dataframe.                          *)
(***************************************************************************)
\* the lower-cased category name is the lower-cased query or a substring of it
NameInQuery(cat, q) == IsSub(Lower(cat), Lower(q)) \/ Lower(cat) = Lower(q)

\* a whitespace-delimited word of the lower-cased name is a substring of the
\* lower-cased query
WordInQuery(cat, q) == \E w \in Range(Split(Lower(cat))) : IsSub(w, Lower(q))

\* a query token longer than 2 characters is close to the lower-cased name
FuzzyInQuery(cat, q) ==
    \E w \in Range(Split(Lower(q))) : Len(w) > 2 /\ IsClose(Lower(cat), w)

\* a call on a store with rows has returned
CategoryLookedUp == pc = "done" /\ ~AllWhitespace(query) /\ StoreUsable(df)

\* the decision of the call is the one of the category extractor
FromCategoryExtractor == route = "CATEGORY" /\ LastStage(trace) = "category"

C22_CategoryIsStoreValue ==
    pc = "done" =>
        /\ FromCategoryExtractor =>
               /\ StoreUsable(df)
               /\ HasColumn(df, "category")
               /\ params.category \in StringValues(df, "category")
        /\ Has(params, "category") => FromCategoryExtractor
        /\ ~StoreUsable(df) => "category" \notin Range(trace)
        /\ (~StoreUsable(df) \/ ~HasColumn(df, "category")) =>
               /\ ExtractCategoryFromDataframe(query, df) = None
               /\ ~Has(params, "category")

\* 'fule' has been given the category Fuel, written as the store writes it and
\* as neither the query nor its lower-cased form has it
C22_StoreCasingReturned ==
    /\ pc = "done"
    /\ FromCategoryExtractor
    /\ query = "fule"
    /\ params.category = "Fuel"
    /\ params.category # Lower(params.category)

(***************************************************************************)
(* Properties of extract_merchant_from_query.                              *)
(***************************************************************************)
\* the values of the i-th column the store declares, as the extractor reads them
ValuesAt(d, ci) == ColValues(d, d.columns[ci])

\* the term hits a value of the column: directly, or with a ratio of at least 0.7
HitsColumn(term, d, ci) == \E v \in Range(ValuesAt(d, ci)) : TermHits(term, v)

\* some value of the column is a direct hit of the term
DirectInColumn(term, d, ci) == \E v \in Range(ValuesAt(d, ci)) : DirectHit(term, v)

\* the term hits no column of the store
HitsNothing(term, d) == \A ci \in 1..Len(d.columns) : ~HitsColumn(term, d, ci)

\* the merchant stage of a call on a store with rows has run, and the call has
\* returned
MerchantLookedUp ==
    /\ pc = "done"
    /\ StoreUsable(df)
    /\ Len(trace) >= 3
    /\ trace[3] = "merchant"

\* value is what term ti of the query gives in column ci, no earlier term
\* hitting any column; within the column a direct hit goes before a close match
GivenBy(value, terms, d, ti, ci) ==
    /\ \A tj \in 1..(ti - 1) : HitsNothing(terms[tj], d)
    /\ value \in Range(ValuesAt(d, ci))
    /\ IF DirectInColumn(terms[ti], d, ci)
       THEN DirectHit(terms[ti], value)
       ELSE IsClose(Lower(value), terms[ti])

\* C23: the value returned is the hit of the earliest term that hits any column,
\* also when a later term hits an earlier column; within one term and one column
\* a direct hit is taken before a close match; nothing is returned only when no
\* term hits any column.
C23_EarliestTermDecides ==
    MerchantLookedUp =>
        /\ ExtractMerchantFromQuery(query, df).some <=>
               \E t \in Range(QueryTerms(query)) : ~HitsNothing(t, df)
        /\ ExtractMerchantFromQuery(query, df).some =>
               \E ti \in 1..Len(QueryTerms(query)), ci \in 1..Len(df.columns) :
                   GivenBy(ExtractMerchantFromQuery(query, df).v, QueryTerms(query), df, ti, ci)
        /\ Has(params, "merchant") =>
               params.merchant = ExtractMerchantFromQuery(query, df).v

\* 'payment tesco' has been given TESCO on a store where its first term hits the
\* description column; 'tesco payment' has been given TESCO where the first
\* term hits the merchant column only and the second term the description
C23_LaterColumnOfEarlierTerm ==
    /\ MerchantLookedUp
    /\ query = "tesco payment"
    /\ df = Store(ShopColumns, Shops)
    /\ HitsColumn("payment", df, 1)
    /\ ~HitsColumn("tesco", df, 1)
    /\ params.merchant = "TESCO"

\* the first term of the query that hits a column of the store
DecidingTerm(q, d) ==
    QueryTerms(q)[Min({ti \in 1..Len(QueryTerms(q)) : ~HitsNothing(QueryTerms(q)[ti], d)})]

\* the description column holds a value the term hits
HitsDescription(term, d) ==
    /\ HasColumn(d, "description")
    /\ \E v \in Range(ColValues(d, "description")) : TermHits(term, v)

ReadablePositions(d) ==
    SelectSeq([i \in 1..Len(d.columns) |-> i], LAMBDA i : ~ColumnRaises(d, d.columns[i]))

\* the store without the columns whose processing raises
Readable(d) ==
    [present |-> d.present,
     columns |-> [k \in 1..Len(ReadablePositions(d)) |-> d.columns[ReadablePositions(d)[k]]],
     rows    |-> [r \in 1..Len(d.rows) |->
                     [k \in 1..Len(ReadablePositions(d)) |->
                         d.rows[r][ReadablePositions(d)[k]]]]]

\* the store has a column whose processing raises
SomeColumnRaises(d) == \E i \in 1..Len(d.columns) : ColumnRaises(d, d.columns[i])

\* C25: a column whose processing raises is skipped and the scan goes on: the
\* extractor returns what it returns on the store without that column, a hit of
\* any term in any other column included, and the call never ends with the
\* exception.
C25_RaisingColumnSkipped ==
    /\ SomeColumnRaises(df) => pc # "raised"
    /\ (MerchantLookedUp /\ SomeColumnRaises(df)) =>
           /\ ExtractMerchantFromQuery(query, df)
                  = ExtractMerchantFromQuery(query, Readable(df))
           /\ Has(params, "merchant") <=> Truthy(ExtractMerchantFromQuery(query, Readable(df)))
           /\ Has(params, "merchant") =>
                  params.merchant = ExtractMerchantFromQuery(query, Readable(df)).v

\* the first term of 'tesco shell' hits only values of the columns that raise,
\* and the hit of the second term in the description column has been returned
C25_HitAfterRaisingColumn ==
    /\ MerchantLookedUp
    /\ SomeColumnRaises(df)
    /\ query = "tesco shell"
    /\ HitsNothing("tesco", Readable(df))
    /\ DirectHit("tesco", df.rows[1][1].s)
    /\ params.merchant = "SHELL"

(***************************************************************************)
(* Properties of the terms the extractors take from a query.               *)
(***************************************************************************)
\* a term as C26 describes it: lower-cased, no punctuation at its end, at least
\* 2 characters long, and none of the stop words
WellFormedTerm(term, stop) ==
    /\ term = Lower(term)
    /\ Len(term) >= 2
    /\ Ch(term, Len(term)) \notin PunctChars
    /\ term \notin stop

\* C26 as stated: every query term of the merchant extractor and every term of
\* extract_search_terms is lower-cased, stripped of trailing punctuation, at
\* least 2 characters long after stripping and no stop word of its extractor.
C26_TermsWellFormed ==
    (pc = "done" /\ Len(trace) >= 3 /\ trace[3] = "merchant") =>
        /\ \A i \in 1..Len(QueryTerms(query)) :
               WellFormedTerm(QueryTerms(query)[i], IgnoreWords)
        /\ \A i \in 1..Len(ExtractSearchTerms(query)) :
               WellFormedTerm(ExtractSearchTerms(query)[i], StopWords)

(***************************************************************************)
(* Properties of search_transactions.                                      *)
(***************************************************************************)
\* the text of a cell contains the term, whatever the case of the letters; the
\* text of a missing value is 'nan' where astype(str) writes it, and nothing
\* where it keeps the value missing
TextHas(cell, term) ==
    IF cell.k = "nan" THEN nanAsText /\ IsSub(Lower(term), "nan")
    ELSE IsSub(Lower(term), Lower(cell.s))

\* the rows in which some search term of the query occurs in one of the five
\* columns that the store has
RowsWithTerm(q, d) ==
    {r \in 1..Len(d.rows) :
        \E t \in Range(ExtractSearchTerms(q)) :
            \E col \in {"description", "merchant", "name", "category", "type"} :
                HasColumn(d, col) /\ TextHas(Column(d, col)[r], t)}

\* the free-text search of a call has run
SearchRan == pc = "done" /\ "search" \in Range(trace)

\* s lists its elements in increasing order, each once
Increasing(s) == \A i \in 1..Len(s), j \in 1..Len(s) : i < j => s[i] < s[j]

\* C27: search_transactions selects exactly the rows, in store order, in which a
\* search term occurs, case-insensitively, in one of description, merchant,
\* name, category, type that the store has; it returns nothing when the store
\* is empty, when no search term remains and when no row is selected.
C27_RowsWithSomeTerm ==
    SearchRan =>
        /\ Range(SearchTransactions(query, df, nanAsText)) = RowsWithTerm(query, df)
        /\ Increasing(SearchTransactions(query, df, nanAsText))
        /\ ExtractSearchTerms(query) = <<>> => SearchTransactions(query, df, nanAsText) = <<>>
        /\ SearchTransactions(query, Store(df.columns, <<>>), nanAsText) = <<>>
        /\ Has(params, "search_result") =>
               params.search_result = SearchTransactions(query, df, nanAsText)

\* 'shell TESCO' has selected the rows of TESCO and SHELL, in the order of the
\* store, in a store of three rows whose descriptions are written in capitals
C27_TwoRowsInStoreOrder ==
    /\ SearchRan
    /\ query = "shell TESCO"
    /\ Len(df.rows) = 3
    /\ SearchTransactions(query, df, nanAsText) = <<2, 3>>
    /\ df.rows[2][1].s = "TESCO"
    /\ df.rows[3][1].s = "SHELL"

(***************************************************************************)
(* The shapes of the parameter map.                                        *)
(***************************************************************************)
\* the keys of the parameter map of the call
Keys == DOMAIN params

\* the key sets a SEARCH decision of the store stages may carry
SearchShapes ==
    {{"query", "merchant"},
     {"query", "merchant", "amount_min", "amount_max"},
     {"query", "amount_min", "amount_max"},
     {"query", "search_result", "is_fuzzy_search"}}

\* the routes named by the intent table
IntentRoutes == {"CATEGORY", "ANOMALIES", "HEALTH", "TREND", "SUMMARY", "SEARCH"}

\* C28: every decision returned by route_query carries {} (empty query),
\* {query, category} with CATEGORY, one of the four SEARCH shapes with SEARCH,
\* or {query, route_score} with a route of the intent table; the two amount
\* bounds come together, search_result never comes with merchant or a bound,
\* is_fuzzy_search comes exactly with search_result, the route is never UNKNOWN.
C28_ParameterShapes ==
    pc = "done" =>
        /\ \/ Keys = {} /\ route = "SUMMARY" /\ IsBlank(query)
           \/ Keys = {"query", "category"} /\ route = "CATEGORY"
           \/ Keys \in SearchShapes /\ route = "SEARCH"
           \/ Keys = {"query", "route_score"} /\ route \in IntentRoutes
        /\ ("amount_min" \in Keys) = ("amount_max" \in Keys)
        /\ "search_result" \in Keys =>
               Keys \cap {"merchant", "amount_min", "amount_max"} = {}
        /\ ("is_fuzzy_search" \in Keys) = ("search_result" \in Keys)
        /\ route # "UNKNOWN"
        /\ "query" \in Keys => params.query = query

\* a call has returned the rows of the free-text search with their mark
C28_SearchResultMarked ==
    /\ pc = "done"
    /\ route = "SEARCH"
    /\ Keys = {"query", "search_result", "is_fuzzy_search"}
    /\ params.search_result # <<>>

(***************************************************************************)
(* Properties of HybridNLPRouter.                                          *)
(***************************************************************************)
\* the routes of the keyword fallback, in the order of their declaration
DeclaredRoutes == <<"CATEGORY", "ANOMALIES", "HEALTH", "SUMMARY", "TREND">>

\* some keyword declared for the route named r is a substring of the lower-cased
\* query
RouteMatches(r, q) ==
    \E e \in Range(keyword_routes) :
        /\ e.route = r
        /\ \E kw \in Range(e.keywords) : IsSub(kw, Lower(q))

\* the first declared route that matches, UNKNOWN when none does
FirstDeclaredMatch(q) ==
    IF \E i \in 1..Len(DeclaredRoutes) : RouteMatches(DeclaredRoutes[i], q)
    THEN DeclaredRoutes[CHOOSE i \in 1..Len(DeclaredRoutes) :
             /\ RouteMatches(DeclaredRoutes[i], q)
             /\ \A j \in 1..(i - 1) : ~RouteMatches(DeclaredRoutes[j], q)]
    ELSE "UNKNOWN"

\* the calls of route_query made on the router so far
RouteQueryCalls == {i \in 1..Len(hybrid.calls) : hybrid.calls[i].op = "route_query"}

FirstKeyAt(i, description) ==
    /\ IsSub(CATEGORY_MAP[i][1], Upper(description))
    /\ \A j \in 1..(i - 1) : ~IsSub(CATEGORY_MAP[j][1], Upper(description))

\* what the keyword fallback gives for a description
KeywordCategory(description) ==
    IF description = "" THEN "Other"
    ELSE IF \E i \in 1..Len(CATEGORY_MAP) : FirstKeyAt(i, description)
    THEN CATEGORY_MAP[CHOOSE i \in 1..Len(CATEGORY_MAP) : FirstKeyAt(i, description)][2]
    ELSE "Other"

\* the uses of categorise made by the clients so far
CategoriseUses ==
    {i \in 1..Len(categorisation.calls) : categorisation.calls[i].op = "categorise"}

\* C30: on every import path the flag is false, the singleton of the
\* categorisation module stays None after any sequence of get_nlp_engine and
\* categorise calls, and categorise gives the keyword fallback: 'Other' for an
\* empty description, otherwise the category of the first key of CATEGORY_MAP, in
\* declaration order, in the upper-cased description, 'Other' when there is none.
C30_KeywordFallbackOnEveryImportPath ==
    /\ ~categorisation.ADVANCED_NLP_AVAILABLE
    /\ ~categorisation.nlp_engine.some
    /\ \A i \in CategoriseUses :
           categorisation.calls[i].result =
               KeywordCategory(categorisation.calls[i].description)

====
